---- MODULE Spec2Model ----
(***************************************************************************)
(* Model of the IntraDesk <-> Telegram relay: the webhook receiver         *)
(* (idk_webhook.py) and the bot process (main.py) that share one SQLite    *)
(* file.  Texts are sequences of tokens (one character, one markup tag or  *)
(* one entity per token); timestamps are opaque tags.                      *)
(***************************************************************************)
EXTENDS Integers, Sequences, FiniteSets, TLC

\* ------------------------------------------------------------------------
\* Bounds of the model
\* ------------------------------------------------------------------------
\* capacity of the event-dedup deque, scaled down from maxlen=5000
SeenCap == 2
\* tg_limit of the configuration, the length of a piece tg_send sends
TG_LIMIT == 5
\* number of backend status transitions followed in the concurrent model
MaxEpoch == 2
\* deliveries IntraDesk issues of one webhook body
MaxCopies == 2

\* SQL NULL / Python None for integer columns and optional integers
NULL == -1

\* ------------------------------------------------------------------------
\* Status taxonomy
\* ------------------------------------------------------------------------
OPEN_STATUS_ID == 106939
FINAL_STATUSES == {106950, 106949, 106946}
RATING_FINAL_STATUSES == {106950, 106946}
\* notify_statuses of the configuration: its fallback 106948 and 106950,
\* which makes a status notify-worthy and final at once
NOTIFY_STATUSES == {106948, 106950}
REOPEN_STATUSES == {106941, 106940, 106948}
REOPEN_MAP_ON_COMMENT == [s \in {106940, 106948} |-> 106939]

\* ------------------------------------------------------------------------
\* Text normalizer
\* ------------------------------------------------------------------------
Range(s) == {s[i] : i \in 1..Len(s)}

WsTokens == {" ", "\t", "\n", "\r"}
ZwTokens == {"zwsp", "zwnj", "zwj", "vs15", "vs16"}
UpperTokens == {"D", "O", "P"}
LowerTokens == {"d", "o", "n", "e", "k", "p", "l", "s", "h"}
DigitTokens == {"1", "2"}
PunctTokens == {"!", ".", ",", "_", "&"}
BrTokens == {"<br>", "<BR/>"}
IntradeskTagTokens == {"<intradesk-mention>"}
OtherTagTokens == {"<b>", "</b>"}
EntityTokens == {"&amp;"}
QuoteToken == "\""

ToLower(c) ==
  CASE c = "D" -> "d"
    [] c = "O" -> "o"
    [] c = "P" -> "p"
    [] OTHER -> c

unescape(c) == IF c = "&amp;" THEN "&" ELSE c

MapSeq(s, F(_)) == [i \in 1..Len(s) |-> F(s[i])]

\* re.sub(r"\r\n?", "\n", s)
RECURSIVE NormalizeNewlines(_)
NormalizeNewlines(s) ==
  IF s = <<>> THEN <<>>
  ELSE IF Head(s) = "\r"
       THEN IF Len(s) >= 2 /\ s[2] = "\n"
            THEN <<"\n">> \o NormalizeNewlines(Tail(Tail(s)))
            ELSE <<"\n">> \o NormalizeNewlines(Tail(s))
       ELSE <<Head(s)>> \o NormalizeNewlines(Tail(s))

\* re.sub(<run of tokens of S>, rep, s): every maximal run of tokens of S
\* of length at least min becomes rep, shorter runs are kept
RECURSIVE RunLen(_, _)
RunLen(s, S) ==
  IF s = <<>> \/ Head(s) \notin S THEN 0 ELSE 1 + RunLen(Tail(s), S)

RECURSIVE ReplaceRuns(_, _, _, _)
ReplaceRuns(s, S, min, rep) ==
  IF s = <<>> THEN <<>>
  ELSE LET n == RunLen(s, S) IN
       IF n = 0 THEN <<Head(s)>> \o ReplaceRuns(Tail(s), S, min, rep)
       ELSE (IF n >= min THEN rep ELSE SubSeq(s, 1, n))
            \o ReplaceRuns(SubSeq(s, n + 1, Len(s)), S, min, rep)

RECURSIVE LStrip(_)
LStrip(s) == IF s # <<>> /\ Head(s) \in WsTokens THEN LStrip(Tail(s)) ELSE s

RECURSIVE RStrip(_)
RStrip(s) ==
  IF s # <<>> /\ s[Len(s)] \in WsTokens THEN RStrip(SubSeq(s, 1, Len(s) - 1)) ELSE s

Strip(s) == RStrip(LStrip(s))

clean_intradesk_html(s) ==
  IF s = <<>> THEN <<>>
  ELSE
    LET t1 == IF Len(s) >= 2 /\ s[1] = QuoteToken /\ s[Len(s)] = QuoteToken
              THEN SubSeq(s, 2, Len(s) - 1) ELSE s
        t2 == MapSeq(t1, LAMBDA c : IF c \in BrTokens THEN "\n" ELSE c)
        t3 == SelectSeq(t2, LAMBDA c : c \notin IntradeskTagTokens)
        t4 == SelectSeq(t3, LAMBDA c : c \notin OtherTagTokens)
        t5 == MapSeq(t4, unescape)
        t6 == NormalizeNewlines(t5)
        t7 == ReplaceRuns(t6, {" ", "\t"}, 1, <<" ">>)
        t8 == ReplaceRuns(t7, {"\n"}, 3, <<"\n", "\n">>)
    IN Strip(t8)

normalize_for_db(s) ==
  IF s = <<>> THEN <<>>
  ELSE
    LET s1 == SelectSeq(s, LAMBDA c : c \notin {"zwsp", "zwnj", "zwj", "vs15", "vs16"})
        s2 == NormalizeNewlines(s1)
        s3 == Strip(ReplaceRuns(s2, WsTokens, 1, <<" ">>))
    IN MapSeq(s3, ToLower)

IsWordToken(c) == ToLower(c) \in LowerTokens \cup DigitTokens

normalize_strict(s) == SelectSeq(normalize_for_db(s), IsWordToken)

\* ------------------------------------------------------------------------
\* Fuzzy echo detector
\* ------------------------------------------------------------------------
\* x in y for Python strings (the empty string is in every string)
IsInfix(x, y) ==
  \E i \in 0..(Len(y) - Len(x)) : SubSeq(y, i + 1, i + Len(x)) = x

\* difflib.SequenceMatcher(None, a, b): length of the common run that
\* starts at a[i], b[j] inside a[..ahi], b[..bhi]
RECURSIVE CommonRun(_, _, _, _, _, _)
CommonRun(a, b, i, j, ahi, bhi) ==
  IF i > ahi \/ j > bhi \/ a[i] # b[j] THEN 0
  ELSE 1 + CommonRun(a, b, i + 1, j + 1, ahi, bhi)

\* find_longest_match: the longest block, the earliest in a, then in b
LongestMatch(a, b, alo, ahi, blo, bhi) ==
  LET cells == (alo..ahi) \X (blo..bhi)
      best == IF cells = {} THEN 0
              ELSE CHOOSE k \in 0..Len(a) :
                     /\ \E c \in cells : CommonRun(a, b, c[1], c[2], ahi, bhi) = k
                     /\ \A c \in cells : CommonRun(a, b, c[1], c[2], ahi, bhi) <= k
  IN IF best = 0 THEN <<alo, blo, 0>>
     ELSE LET hits == {c \in cells : CommonRun(a, b, c[1], c[2], ahi, bhi) = best}
              i == CHOOSE x \in {c[1] : c \in hits} : \A c \in hits : x <= c[1]
              j == CHOOSE y \in {c[2] : c \in {d \in hits : d[1] = i}} :
                     \A c \in {d \in hits : d[1] = i} : y <= c[2]
          IN <<i, j, best>>

\* get_matching_blocks: total size of the matching blocks
RECURSIVE MatchTotal(_, _, _, _, _, _)
MatchTotal(a, b, alo, ahi, blo, bhi) ==
  IF alo > ahi \/ blo > bhi THEN 0
  ELSE LET m == LongestMatch(a, b, alo, ahi, blo, bhi) IN
       IF m[3] = 0 THEN 0
       ELSE m[3] + MatchTotal(a, b, alo, m[1] - 1, blo, m[2] - 1)
                 + MatchTotal(a, b, m[1] + m[3], ahi, m[2] + m[3], bhi)

\* ratio() >= 0.88, with ratio = 2.0 * matches / (len(a) + len(b))
RatioAtLeast88(a, b) ==
  IF Len(a) + Len(b) = 0 THEN TRUE
  ELSE 200 * MatchTotal(a, b, 1, Len(a), 1, Len(b)) >= 88 * (Len(a) + Len(b))

MinEchoLen == 24

\* variant: the substring rule has no minimum length
EchoOfRow_nogate(u, text) ==
  LET e_soft == normalize_for_db(text)
      e_strict == normalize_strict(text)
      u_soft == normalize_for_db(u)
      u_strict == normalize_strict(u_soft)
  IN /\ u_soft # <<>>
     /\ \/ u_soft = e_soft
        \/ IsInfix(u_strict, e_strict) \/ IsInfix(e_strict, u_strict)
        \/ Len(u_soft) >= MinEchoLen /\ Len(e_soft) >= MinEchoLen
             /\ RatioAtLeast88(u_soft, e_soft)

\* one row of user_comments against the candidate
EchoOfRow(u, text) ==
  LET e_soft == normalize_for_db(text)
      e_strict == normalize_strict(text)
      u_soft == normalize_for_db(u)
      u_strict == normalize_strict(u_soft)
  IN /\ u_soft # <<>>
     /\ \/ u_soft = e_soft
        \/ Len(u_strict) >= MinEchoLen
             /\ (IsInfix(u_strict, e_strict) \/ IsInfix(e_strict, u_strict))
        \/ Len(u_soft) >= MinEchoLen /\ Len(e_soft) >= MinEchoLen
             /\ RatioAtLeast88(u_soft, e_soft)


\* ------------------------------------------------------------------------
\* Comment candidate extractor and status extractor
\* ------------------------------------------------------------------------
\* a comment-tagged entry contributes its cleaned text when the raw text
\* is a string that is not blank
CommentTexts(evs) ==
  LET keep == SelectSeq(evs, LAMBDA ev : ev.block = "comment" /\ Strip(ev.text) # <<>>)
  IN [i \in 1..Len(keep) |-> clean_intradesk_html(keep[i].text)]

extract_from_fields_events(payload) == CommentTexts(payload.events)

extract_from_lifetime(payload) == CommentTexts(payload.lifetime)

\* variant: the last text of a key wins, at its own place
RECURSIVE Uniq_last(_, _)
Uniq_last(ts, keys) ==
  IF ts = <<>> THEN <<>>
  ELSE LET k == normalize_for_db(Head(ts)) IN
       IF k # <<>> /\ \A i \in 2..Len(ts) : normalize_for_db(ts[i]) # k
       THEN <<Head(ts)>> \o Uniq_last(Tail(ts), keys)
       ELSE Uniq_last(Tail(ts), keys)

\* de-duplication by soft-normalized key, first seen wins
RECURSIVE Uniq(_, _)
Uniq(ts, keys) ==
  IF ts = <<>> THEN <<>>
  ELSE LET k == normalize_for_db(Head(ts)) IN
       IF k # <<>> /\ k \notin keys
       THEN <<Head(ts)>> \o Uniq(Tail(ts), keys \cup {k})
       ELSE Uniq(Tail(ts), keys)

collect_comment_candidates(payload) ==
  LET flat == SelectSeq(payload.flat, LAMBDA t : Strip(t) # <<>>)
  IN Uniq(extract_from_fields_events(payload) \o extract_from_lifetime(payload)
          \o [i \in 1..Len(flat) |-> clean_intradesk_html(flat[i])], {})

\* max(candidates, key=len): the first of the longest
Longest(cs) ==
  IF cs = <<>> THEN <<>>
  ELSE cs[CHOOSE i \in 1..Len(cs) :
            /\ \A j \in 1..Len(cs) : Len(cs[j]) <= Len(cs[i])
            /\ \A j \in 1..(i - 1) : Len(cs[j]) < Len(cs[i])]

IdKeys == {"Id", "id", "Value", "value"}

\* the status block is absent, a bare integer, a numeric string, a JSON
\* object, a string holding a JSON object, or any other string
pick_status(payload) ==
  LET b == payload.status IN
  CASE b.kind = "absent" -> NULL
    [] b.kind = "int"    -> b.v
    [] b.kind = "numstr" -> b.v
    [] b.kind = "objstr" -> IF b.key \in IdKeys THEN b.v ELSE NULL
    [] b.kind = "obj"    -> NULL
    [] OTHER             -> NULL

\* ------------------------------------------------------------------------
\* Event deduplicator
\* ------------------------------------------------------------------------
\* an absent or empty event id; an id is a one-element tuple
NoEvent == <<>>

\* the value seen_event returns
seen_event(ids, eid) == eid # NoEvent /\ eid \in Range(ids)

\* variant: a full deque drops its newest entry
DequeAppend_newest(ids, eid) ==
  IF Len(ids) >= SeenCap THEN SubSeq(ids, 1, SeenCap - 1) \o <<eid>> ELSE ids \o <<eid>>

\* deque(maxlen=SeenCap).append
DequeAppend(ids, eid) ==
  IF Len(ids) >= SeenCap THEN Tail(ids) \o <<eid>> ELSE ids \o <<eid>>

\* variant: a hit moves the entry to the newest end
seen_ids_after_lru(ids, eid) ==
  IF eid = NoEvent THEN ids
  ELSE IF eid \in Range(ids)
  THEN SelectSeq(ids, LAMBDA x : x # eid) \o <<eid>>
  ELSE DequeAppend(ids, eid)

\* variant: the check does not record the id
seen_ids_after_check(ids, eid) == ids

\* the deque seen_event leaves behind
seen_ids_after(ids, eid) ==
  IF eid = NoEvent \/ eid \in Range(ids) THEN ids ELSE DequeAppend(ids, eid)

\* ------------------------------------------------------------------------
\* Inputs of the model
\* ------------------------------------------------------------------------
TicketIds == {"t1", "t2"}
\* tickets the chat users open; the other ids stay unknown to the bot
ManagedIds == {"t1"}
Users == {42}
UserMsgId == 7
BotMsgId == 9
RatingMsgId == 501

IN_WORK == 106951
NEEDS_REPLY == 106948
DONE == 106946
CANCELLED == 106949
CLOSED == 106950

\* "Ожидание описания", the description create_ticket_handler submits
DescriptionText == <<"h", "e", "l", "p">>
UserText == <<"O", "k", "!">>
UserTexts == {UserText}
\* what the backend sends back for the user's comment
EchoRaw == <<"<br>", "o", "k", "!", "<br>">>
\* an engineer's reply
EngineerRaw == <<"<br>", "D", "o", "n", "e", ".", "<br>">>

\* a user's message with 25 letters and digits
LongText ==
  <<"O", "n", "e", " ", "d", "e", "s", "k", " ", "p", "h", "o", "n", "e",
    " ", "h", "o", "l", "d", "s", ",", " ", "s", "p", "o", "k", "e", ",",
    " ", "d", "e", "l", "!">>
\* the same words in other case and punctuation
LongVariant ==
  <<"o", "n", "e", " ", "D", "e", "s", "k", " ", "P", "h", "o", "n", "e",
    " ", "h", "o", "l", "d", "s", " ", "s", "p", "o", "k", "e", ",", " ",
    "d", "e", "l">>
\* the same message with one letter changed
LongEdited ==
  <<"O", "n", "e", " ", "d", "e", "s", "k", " ", "p", "h", "o", "n", "e",
    " ", "h", "o", "l", "d", "s", ",", " ", "s", "p", "o", "k", "e", ",",
    " ", "d", "e", "n", "!">>

\* texts user_comments can hold for the ticket
StoredTexts == {UserText, DescriptionText, LongText, LongEdited}

\* candidate texts: the empty and the blank text, punctuation alone, short
\* replies, variants of the stored texts
EchoCandidates ==
  {<<>>, <<" ">>, <<" ", "\n", "\t">>, <<"!", "!", "!">>, <<"o", "k">>,
   <<"o", "k", ".">>, <<"o", "k", "!">>, <<"1", "2", ".">>,
   <<"D", "o", "n", "e", ".">>, LongVariant, LongEdited}

StatusBlock(st) ==
  IF st = NULL THEN [kind |-> "absent", key |-> "", v |-> NULL]
  ELSE [kind |-> "int", key |-> "", v |-> st]

\* the block of an entry that is not a JSON object (a string, a number)
NonObject == "#nonobject"

LifetimeOf(raw) ==
  IF raw = <<>> THEN <<>> ELSE <<[block |-> "comment", text |-> raw]>>

Pay(t, raw, st) ==
  [ticket_id |-> t, events |-> <<>>, lifetime |-> LifetimeOf(raw),
   flat |-> <<>>, status |-> StatusBlock(st)]

NoPayload == Pay("none", <<>>, NULL)

\* webhook bodies of the sequential model
Payloads ==
  {Pay("t1", <<>>, NEEDS_REPLY), Pay("t1", EngineerRaw, NEEDS_REPLY),
   Pay("t1", EngineerRaw, DONE), Pay("t1", <<>>, IN_WORK),
   Pay("t1", EchoRaw, NULL), Pay("t1", EngineerRaw, NULL)}

\* a status block in one of its encodings: kind "int" for 106946, "numstr"
\* for "106946", "obj" for {key: 106946}, "objstr" for the same object as a
\* JSON string, "other" for any other string
Block(kind, key, v) == [kind |-> kind, key |-> key, v |-> v]

Entry(block, text) == [block |-> block, text |-> text]

PayWith(t, events, lifetime, block) ==
  [ticket_id |-> t, events |-> events, lifetime |-> lifetime,
   flat |-> <<>>, status |-> block]

\* webhook bodies with the encodings of the status and with comment data
\* that is blank or of the wrong type
EncPayloads ==
  {Pay("t1", EngineerRaw, DONE), Pay("t2", <<>>, NEEDS_REPLY),
   PayWith("t1", <<>>, LifetimeOf(EngineerRaw), Block("other", "", NULL)),
   PayWith("t1", <<>>, LifetimeOf(EngineerRaw), Block("numstr", "", DONE)),
   PayWith("t1", <<>>, LifetimeOf(EngineerRaw), Block("objstr", "Id", DONE)),
   PayWith("t1", <<>>, LifetimeOf(EngineerRaw), Block("obj", "Id", DONE)),
   PayWith("t1", <<>>, <<>>, Block("objstr", "name", DONE)),
   PayWith("t1", <<>>, <<Entry(NonObject, <<>>)>>, StatusBlock(NEEDS_REPLY)),
   PayWith("t1", <<Entry(NonObject, <<>>)>>, <<>>, StatusBlock(DONE)),
   PayWith("t1", <<>>, <<Entry("comment", <<" ">>)>>, StatusBlock(NULL))}

\* a short reply of the engineer, and a reply in two spellings of one length
ShortRaw == <<"n", "o">>
DoneBang == <<"d", "o", "n", "e", "!">>

\* webhook bodies with several comment candidates, and with final statuses
\* that are and are not rating-eligible
PickPayloads ==
  {PayWith("t1", <<Entry("comment", ShortRaw)>>, LifetimeOf(DescriptionText), StatusBlock(NULL)),
   PayWith("t1", <<Entry("comment", ShortRaw)>>, LifetimeOf(EngineerRaw), StatusBlock(DONE)),
   PayWith("t1", <<Entry("comment", DoneBang)>>, LifetimeOf(EngineerRaw), StatusBlock(NULL)),
   Pay("t1", <<>>, DONE), Pay("t1", <<>>, CANCELLED)}

\* sha1(raw).hexdigest(): distinct bodies have distinct digests
Digest(p) == <<p>>

\* digests of the dedup-cache model
Digests == {<<"d1">>, <<"d2">>, <<"d3">>, <<"d4">>}

\* ------------------------------------------------------------------------
\* State
\* ------------------------------------------------------------------------
VARIABLES
  tickets,        \* table tickets: ticket_id -> row, for the rows that exist
  user_comments,  \* table user_comments: set of <<ticket_id, comment_text>>
  seen_ids,       \* _seen_ids of the webhook process
  effects,        \* chat messages the latest operation asked to deliver
  last,           \* the latest operation: its input, outcome and pre-state
  submitted,      \* history: texts the user sent for a ticket through the bot
  age,            \* history: digests recorded since a digest was last
                  \* recorded, SeenCap for SeenCap or more, SeenCap + 1 for
                  \* a digest never recorded
  backend,        \* the task in IntraDesk: its status and status history
  inflight,       \* webhook deliveries IntraDesk has issued, not yet handled,
                  \* and the request of the bot that is under way
  procs,          \* running passes: position and local variables of each
  prompts         \* history: notify and rating prompts per status transition

\* the variables of the passes that run concurrently
concvars == <<backend, inflight, procs, prompts>>

vars == <<tickets, user_comments, seen_ids, effects, last, submitted, age, concvars>>

ZeroRow ==
  [status |-> NULL, notified_status |-> NULL, message_id |-> 0,
   last_user_message_id |-> 0, last_updated |-> "none",
   last_engineer_comment |-> <<>>, last_notified_reminder |-> "none",
   status_changed_at |-> "none", user_id |-> NULL]

\* save_ticket with the defaults of its optional arguments
save_ticket(user_id, message_id, last_uid, updated, status, notified, lec, lnr, sca) ==
  [status |-> status, notified_status |-> notified,
   message_id |-> message_id, last_user_message_id |-> last_uid,
   last_updated |-> updated, last_engineer_comment |-> lec,
   last_notified_reminder |-> lnr, status_changed_at |-> sca,
   user_id |-> user_id]

Put(tk, t, row) ==
  [x \in (DOMAIN tk) \cup {t} |-> IF x = t THEN row ELSE tk[x]]

Fingerprints(uc, t) == {x[2] : x \in {y \in uc : y[1] = t}}

\* variant: DELETE FROM user_comments without its WHERE
clear_user_comments_all(uc, t) == {}

clear_user_comments(uc, t) == {x \in uc : x[1] # t}

save_user_comment(uc, t, text) == uc \cup {<<t, text>>}

Op(op, t, p, ret, pre, prefp, repeat) ==
  [op |-> op, ticket |-> t, payload |-> p, ret |-> ret, pre |-> pre,
   prefp |-> prefp, repeat |-> repeat, eid |-> <<>>, n |-> 0,
   retry |-> FALSE, owed |-> {}, auth |-> <<>>, passed |-> {}]

\* the passes that can run at once: two webhook handlers on the event loop
\* of the receiver and the polling job of the bot process
Handlers == {"h1", "h2"}
Procs == Handlers \cup {"poll"}

NoTd == [status |-> NULL, updatedat |-> "none", lifetime |-> <<>>]

\* a pass that is not running
IdleProc ==
  [pc |-> "idle", payload |-> NoPayload, epoch |-> 0, status |-> NULL,
   changed |-> FALSE, owner |-> NULL, row |-> ZeroRow, td |-> NoTd,
   lec |-> <<>>]

Epochs == 0..MaxEpoch

Init ==
  /\ backend = [status |-> OPEN_STATUS_ID, hist |-> <<>>, commented |-> FALSE]
  /\ inflight = {}
  /\ procs = [x \in Procs |-> IdleProc]
  /\ prompts = [k \in {"notify", "rating"} |-> [e \in Epochs |-> 0]]
  /\ tickets = [x \in {} |-> ZeroRow]
  /\ user_comments = {}
  /\ seen_ids = <<>>
  /\ effects = <<>>
  /\ last = Op("init", "none", NoPayload, "", ZeroRow, {}, FALSE)
  /\ submitted = [t \in TicketIds |-> {}]
  /\ age = [d \in Digests |-> SeenCap + 1]

\* ------------------------------------------------------------------------
\* Webhook receiver: one reconciliation pass
\* ------------------------------------------------------------------------
Truthy(n) == n # NULL /\ n # 0

\* variant: the status is written as it comes, without COALESCE
update_ticket_status_plain(row, new_status) ==
  [row EXCEPT !.status = new_status, !.last_updated = "now"]

\* update_ticket_status: the row it writes and the value it returns
update_ticket_status(row, new_status) ==
  [row EXCEPT !.status = IF new_status # NULL THEN new_status ELSE @,
              !.last_updated = "now"]

\* variant: the old status is not compared
status_changed_cmp(row, new_status) == new_status # NULL

status_changed(row, new_status) == new_status # NULL /\ row.status # new_status

\* tables of the two text functions over the texts of the model; comparing
\* a function makes TLC enumerate it, so that each entry is computed once
Tabulate(f) == IF f = f THEN f ELSE f

EchoMemo ==
  Tabulate([x \in ((UserTexts \cup {DescriptionText})
                    \X {clean_intradesk_html(r) : r \in {EchoRaw, EngineerRaw}})
                  \cup (StoredTexts \X EchoCandidates)
     |-> EchoOfRow(x[1], x[2])])

CandidatesMemo ==
  Tabulate([p \in Payloads \cup EncPayloads \cup PickPayloads
              |-> collect_comment_candidates(p)])

\* variant: only the exact match of the soft-normalized texts counts
user_comment_exists_exact(rows, text) ==
  /\ text # <<>>
  /\ \E u \in rows : /\ normalize_for_db(u) # <<>>
                     /\ normalize_for_db(u) = normalize_for_db(text)

\* rows: the comment_text values stored for the ticket
user_comment_exists(rows, text) ==
  /\ text # <<>>
  /\ \E u \in rows : IF <<u, text>> \in DOMAIN EchoMemo
                     THEN EchoMemo[<<u, text>>] ELSE EchoOfRow(u, text)

\* variant: the longest candidate is forwarded without the echo check
chosen_comment_any(fps, payload) == Longest(collect_comment_candidates(payload))

\* variant: the longest of the candidates that are no echo is forwarded
chosen_comment_nonecho(fps, payload) ==
  Longest(SelectSeq(collect_comment_candidates(payload),
                    LAMBDA c : ~user_comment_exists(fps, c)))

\* the comment the pass forwards, <<>> for none
chosen_comment(fps, payload) ==
  LET candidates == IF payload \in DOMAIN CandidatesMemo
                    THEN CandidatesMemo[payload]
                    ELSE collect_comment_candidates(payload)
      longest == Longest(candidates)
  IN IF candidates # <<>> /\ ~user_comment_exists(fps, longest)
     THEN longest ELSE <<>>

\* variant: a final status gets no notify prompt
notify_due_nonfinal(row, changed, status) ==
  changed /\ status \in NOTIFY_STATUSES \ FINAL_STATUSES /\ row.notified_status # status

\* the notify prompt is due
notify_due(row, changed, status) ==
  changed /\ status \in NOTIFY_STATUSES /\ row.notified_status # status

\* variant: the notified status is not persisted
notify_write_sca(row, status) == [row EXCEPT !.status_changed_at = "now"]

notify_write(row, status) ==
  [row EXCEPT !.notified_status = status, !.status_changed_at = "now"]

\* the rating prompt is due; owner is the user_id read at the start
rating_due(owner, changed, status) ==
  changed /\ status \in RATING_FINAL_STATUSES /\ Truthy(owner)

\* variant: the message id is written whatever send_rating_prompt returned
rating_write_always(row, message_id) == [row EXCEPT !.message_id = message_id]

rating_write(row, message_id) ==
  IF Truthy(message_id) THEN [row EXCEPT !.message_id = message_id] ELSE row

\* variant: only a cancelled ticket has its fingerprints cleared
clear_due_cancelled(status) == status # NULL /\ status = 106949

clear_due(status) == status # NULL /\ status \in FINAL_STATUSES

Effect(kind, text, ok) == [kind |-> kind, text |-> text, ok |-> ok]

Kinds(es) == [i \in 1..Len(es) |-> es[i].kind]

\* variant: the prompts are sent before the comment
pass_effects_late(chosen, okC, doNotify, okN, doRating, mid, doClear) ==
  (IF doNotify THEN <<Effect("notify", <<>>, okN)>> ELSE <<>>)
  \o (IF doRating THEN <<Effect("rating", <<>>, Truthy(mid))>> ELSE <<>>)
  \o (IF chosen # <<>> THEN <<Effect("comment", chosen, okC)>> ELSE <<>>)
  \o (IF doClear THEN <<Effect("clear", <<>>, TRUE)>> ELSE <<>>)

\* the messages of one pass, in the order the handler sends them
pass_effects(chosen, okC, doNotify, okN, doRating, mid, doClear) ==
  (IF chosen # <<>> THEN <<Effect("comment", chosen, okC)>> ELSE <<>>)
  \o (IF doNotify THEN <<Effect("notify", <<>>, okN)>> ELSE <<>>)
  \o (IF doRating THEN <<Effect("rating", <<>>, Truthy(mid))>> ELSE <<>>)
  \o (IF doClear THEN <<Effect("clear", <<>>, TRUE)>> ELSE <<>>)

\* the outcomes of a delivery that is attempted
Outcomes(attempted, S) == IF attempted THEN S ELSE {CHOOSE x \in S : TRUE}

\* variant: a row of defaults stands in for a ticket that has no row
get_ticket_row_default(tk, t) == IF t \in DOMAIN tk THEN <<tk[t]>> ELSE <<ZeroRow>>

\* fetchone(): the row of the ticket, <<>> for None
get_ticket_row(tk, t) == IF t \in DOMAIN tk THEN <<tk[t]>> ELSE <<>>

\* extract_from_lifetime calls .get on every entry and event of the parsed
\* lifetime: an entry that is not a JSON object raises AttributeError
extract_raises(payload) ==
  \E i \in 1..Len(payload.lifetime) : payload.lifetime[i].block = NonObject

\* the record of a webhook call; retry: the call before it was aborted by an
\* exception and had the same raw body; owed: the prompts that call was to
\* emit and did not
WebhookOp(p, ret, pre, prefp, repeat, owed) ==
  LET retry == last.op = "idk_webhook" /\ last.ret = "error" /\ last.payload = p IN
  [Op("idk_webhook", p.ticket_id, p, ret, pre, prefp, repeat)
     EXCEPT !.retry = retry, !.owed = IF retry THEN last.owed ELSE owed]

\* idk_webhook, authenticated; okC, okN: the chat accepted the comment, the
\* notify prompt; rsC, rsN: tg_send raised, which the second send_message
\* after RetryAfter can; mid: the message id send_rating_prompt returned
idk_webhook_pass(p) ==
  LET t == p.ticket_id
      repeat == last.op = "idk_webhook" /\ last.ret = "ok" /\ last.payload = p
      found == get_ticket_row(tickets, t)
  IN
  /\ seen_ids' = seen_ids_after(seen_ids, Digest(p))
  /\ UNCHANGED <<submitted, age, backend, inflight, procs>>
  /\ IF seen_event(seen_ids, Digest(p))
     THEN /\ UNCHANGED <<tickets, user_comments>>
          /\ effects' = <<>>
          /\ last' = WebhookOp(p, "duplicate", ZeroRow, {}, FALSE, {})
     ELSE IF found = <<>>
     THEN /\ UNCHANGED <<tickets, user_comments>>
          /\ effects' = <<>>
          /\ last' = WebhookOp(p, "not_found", ZeroRow, {}, FALSE, {})
     ELSE IF extract_raises(p)
     THEN /\ UNCHANGED <<tickets, user_comments>>
          /\ effects' = <<>>
          /\ last' = WebhookOp(p, "error", found[1],
                               Fingerprints(user_comments, t), FALSE, {})
     ELSE
       LET row == found[1]
           fps == Fingerprints(user_comments, t)
           chosen == chosen_comment(fps, p)
           status == pick_status(p)
           changed == status_changed(row, status)
           row1 == update_ticket_status(row, status)
           doNotify == notify_due(row1, changed, status)
           row2 == IF doNotify THEN notify_write(row1, status) ELSE row1
           doRating == rating_due(row.user_id, changed, status)
           doClear == clear_due(status)
           owed == (IF doNotify THEN {"notify"} ELSE {})
                   \cup (IF doRating THEN {"rating"} ELSE {})
       IN
       \E okC \in Outcomes(chosen # <<>>, BOOLEAN),
          okN \in Outcomes(doNotify, BOOLEAN),
          mid \in Outcomes(doRating, {NULL, RatingMsgId}) :
         \E rsC \in IF chosen # <<>> /\ ~okC THEN BOOLEAN ELSE {FALSE} :
           \E rsN \in IF doNotify /\ ~okN /\ ~rsC THEN BOOLEAN ELSE {FALSE} :
             LET row3 == IF doRating THEN rating_write(row2, mid) ELSE row2
                 sentC == IF chosen # <<>> THEN <<Effect("comment", chosen, okC)>>
                          ELSE <<>>
             IN
             IF rsC \/ rsN
             THEN /\ tickets' = Put(tickets, t, row1)
                  /\ UNCHANGED user_comments
                  /\ effects' = IF rsC THEN sentC
                                ELSE sentC \o <<Effect("notify", <<>>, FALSE)>>
                  /\ last' = WebhookOp(p, "error", row, fps, FALSE, owed)
             ELSE /\ tickets' = Put(tickets, t, row3)
                  /\ user_comments' = IF doClear THEN clear_user_comments(user_comments, t)
                                      ELSE user_comments
                  /\ effects' = pass_effects(chosen, okC, doNotify, okN, doRating, mid, doClear)
                  /\ last' = WebhookOp(p, "ok", row, fps, repeat, {})

\* the pass where the history of the prompts is not kept
idk_webhook(p) == idk_webhook_pass(p) /\ UNCHANGED prompts

\* the webhook process starts again: the in-memory cache is empty
Restart ==
  /\ seen_ids # <<>>
  /\ seen_ids' = <<>>
  /\ UNCHANGED <<tickets, user_comments, effects, last, submitted, age, concvars>>

\* ------------------------------------------------------------------------
\* Bot process: tickets and comments of the chat user
\* ------------------------------------------------------------------------
\* create_ticket_handler: create_ticket, then the row with the message ids;
\* sent: the message id of the confirmation, NULL when it was not delivered
create_ticket_handler(t, u, st, sent) ==
  /\ t \notin DOMAIN tickets
  /\ user_comments' = save_user_comment(user_comments, t, DescriptionText)
  /\ tickets' = Put(tickets, t,
        save_ticket(u, IF Truthy(sent) THEN sent ELSE UserMsgId, UserMsgId,
                    "u0", st, NULL, <<>>, "none", "none"))
  /\ effects' = <<>>
  /\ last' = Op("create_ticket", t, NoPayload, "ok", ZeroRow, {}, FALSE)
  /\ UNCHANGED <<seen_ids, submitted, age, concvars>>

\* variant: a comment never asks for another status
desired_status_none(current_status) == NULL

\* the status add_comment_to_ticket asks the backend to set
desired_status(current_status) ==
  IF current_status # NULL /\ current_status \in DOMAIN REOPEN_MAP_ON_COMMENT
  THEN REOPEN_MAP_ON_COMMENT[current_status]
  ELSE IF current_status # NULL /\ current_status \in REOPEN_STATUSES
  THEN OPEN_STATUS_ID
  ELSE NULL

\* variant: a comment is accepted whatever the stored status
comment_rejected_never(current_status) == FALSE

\* add_comment_to_ticket refuses the comment: the stored status is final
comment_rejected(current_status) ==
  current_status # NULL /\ current_status \in FINAL_STATUSES

\* variant: the row is stored whatever the backend answered
row_after_put_always(row, saved, put_ok) == saved

\* the row after the PUT: save_ticket runs only when raise_for_status
\* passed
row_after_put(row, saved, put_ok) == IF put_ok THEN saved ELSE row

\* handle_message with a text for ticket t: add_comment_to_ticket, then the
\* removal of the bot's previous message; put_ok: the backend accepted the
\* write; del_ok: the chat deleted the message
add_comment_to_ticket(t, u, comment, put_ok, del_ok) ==
  LET row == tickets[t]
      fps == Fingerprints(user_comments, t)
      current_status == row.status
      desired == desired_status(current_status)
      effective == IF desired # NULL THEN desired
                   ELSE IF row.status # NULL THEN row.status ELSE OPEN_STATUS_ID
      saved == save_ticket(u, row.message_id, UserMsgId, row.last_updated,
                           effective, row.notified_status,
                           row.last_engineer_comment,
                           row.last_notified_reminder, "none")
      final == IF Truthy(saved.message_id) /\ del_ok
               THEN [saved EXCEPT !.message_id = 0] ELSE saved
  IN
  /\ t \in DOMAIN tickets
  /\ effects' = <<>>
  /\ UNCHANGED <<seen_ids, age, concvars>>
  /\ IF comment_rejected(current_status)
     THEN /\ UNCHANGED <<tickets, user_comments, submitted>>
          /\ last' = Op("add_comment", t, NoPayload, "rejected", row, fps, FALSE)
     ELSE /\ user_comments' = save_user_comment(user_comments, t, comment)
          /\ submitted' = [submitted EXCEPT ![t] = @ \cup {comment}]
          /\ tickets' = Put(tickets, t, row_after_put(row, final, put_ok))
          /\ last' = Op("add_comment", t, NoPayload,
                        IF put_ok THEN "ok" ELSE "failed", row, fps, FALSE)

\* ------------------------------------------------------------------------
\* Bot process: the polling pass over the stored tickets
\* ------------------------------------------------------------------------
\* html.escape, token by token
EscapeToken(c) ==
  CASE c = "&" -> "&amp;"
    [] c = "&amp;" -> "&amp;amp;"
    [] c = QuoteToken -> "&quot;"
    [] c = "<br>" -> "&lt;br&gt;"
    [] c = "<BR/>" -> "&lt;BR/&gt;"
    [] c = "<b>" -> "&lt;b&gt;"
    [] c = "</b>" -> "&lt;/b&gt;"
    [] c = "<intradesk-mention>" -> "&lt;intradesk-mention&gt;"
    [] OTHER -> c

escape_html(s) == MapSeq(s, EscapeToken)

\* exact match on the stored text
is_user_comment(uc, t, text) == <<t, text>> \in uc

\* one comment event of the task's lifetime; customer: changedby holds
\* "customer_"
PollEvent(text, customer) == [text |-> text, customer |-> customer]

\* the backend's answer for one task; lifetime holds the comment events in
\* the order of the scan, newest first; status NULL: no status key
Td(status, updatedat, lifetime) ==
  [status |-> status, updatedat |-> updatedat, lifetime |-> lifetime]

PollLifetimes ==
  {<<>>, <<PollEvent(UserText, TRUE), PollEvent(EngineerRaw, FALSE)>>}

PollTds ==
  {Td(st, "u1", lt) : st \in {NULL, NEEDS_REPLY, DONE}, lt \in PollLifetimes}

\* the first comment of the scan that is neither the customer's nor a
\* stored user comment, <<>> for None
latest_engineer_comment(uc, t, evs) ==
  LET idx == {i \in 1..Len(evs) : /\ evs[i].text # <<>>
                                  /\ ~evs[i].customer
                                  /\ ~is_user_comment(uc, t, evs[i].text)}
  IN IF idx = {} THEN <<>>
     ELSE evs[CHOOSE i \in idx : \A j \in idx : i <= j].text

poll_status_db(row) == IF row.status # NULL THEN row.status ELSE OPEN_STATUS_ID

poll_status(td, status_db) == IF td.status # NULL THEN td.status ELSE status_db

poll_status_changed_at(row, status_db, status, updated_at) ==
  IF status # status_db THEN updated_at
  ELSE IF row.status_changed_at # "none" THEN row.status_changed_at
  ELSE updated_at

\* the pass handles the task at all
poll_guard(row, updated_at) ==
  row.last_updated # updated_at /\ Truthy(row.last_user_message_id)

\* the arm of the if / elif / else the pass takes
poll_branch(row, status_db, status) ==
  IF /\ status # status_db
     /\ status \in NOTIFY_STATUSES
     /\ (row.notified_status = NULL \/ status # row.notified_status)
  THEN "notify"
  ELSE IF status # status_db /\ status \in FINAL_STATUSES THEN "rating"
  ELSE "other"

\* the else arm stores the row
poll_other_saves(row, status_db, status, lec) ==
  status # status_db \/ lec # row.last_engineer_comment

\* the else arm clears the fingerprints
poll_clears(branch, saves, status) ==
  branch = "other" /\ saves /\ status \in FINAL_STATUSES

\* the row save_ticket writes in the pass
poll_row(row, td, status, notified, lec, lnr, sca) ==
  save_ticket(row.user_id, row.message_id, row.last_user_message_id,
              td.updatedat, status, notified, lec, lnr, sca)

\* the row the pass leaves, computed from the row of its snapshot: the
\* save_ticket of the arm it takes, the reset of message_id after the
\* rating prompt, the save_ticket of the reminder; the snapshot row when it
\* stores nothing
poll_result_row(row, td, lec, del_ok, remind) ==
  LET status_db == poll_status_db(row)
      status == poll_status(td, status_db)
      sca == poll_status_changed_at(row, status_db, status, td.updatedat)
      branch == poll_branch(row, status_db, status)
      lnr == row.last_notified_reminder
      prompted == poll_row(row, td, status, status, lec, lnr, sca)
      kept == poll_row(row, td, status, row.notified_status, lec, lnr, sca)
      row1 == IF branch = "notify" THEN prompted
              ELSE IF branch = "rating"
              THEN IF Truthy(row.message_id) /\ del_ok
                   THEN [prompted EXCEPT !.message_id = 0] ELSE prompted
              ELSE IF poll_other_saves(row, status_db, status, lec) THEN kept
              ELSE row
  IN IF remind
     THEN poll_row(row, td, status, row.notified_status, lec, "now", sca)
     ELSE row1

\* the messages of one polling pass, in the order it sends them
poll_effects(lec, sendC, okC, branch, okP, doClear, remind, okR) ==
  (IF sendC THEN <<Effect("comment", escape_html(lec), okC)>> ELSE <<>>)
  \o (IF branch = "notify" THEN <<Effect("notify", <<>>, okP)>> ELSE <<>>)
  \o (IF branch = "rating" THEN <<Effect("rating", <<>>, okP)>> ELSE <<>>)
  \o (IF doClear THEN <<Effect("clear", <<>>, TRUE)>> ELSE <<>>)
  \o (IF remind THEN <<Effect("reminder", <<>>, okR)>> ELSE <<>>)

\* check_ticket_status, the body of its loop for the stored ticket t;
\* found: the backend answered with the task; member_ok: get_chat_member
\* did not raise; del_ok: the chat deleted the bot's message; remind: the
\* clock conditions of the reminder hold; okC, okP, okR: the chat accepted
\* the comment, the prompt, the reminder
check_ticket_status(t, td, found, member_ok) ==
  LET row == tickets[t]
      fps == Fingerprints(user_comments, t)
      status_db == poll_status_db(row)
      status == poll_status(td, status_db)
      lec == latest_engineer_comment(user_comments, t, td.lifetime)
      branch == poll_branch(row, status_db, status)
      sendC == /\ lec # <<>>
               /\ lec # row.last_engineer_comment
               /\ ~is_user_comment(user_comments, t, lec)
      saves == poll_other_saves(row, status_db, status, lec)
      doClear == poll_clears(branch, saves, status)
  IN
  /\ t \in DOMAIN tickets
  /\ UNCHANGED <<seen_ids, submitted, age, concvars>>
  /\ IF ~found \/ ~poll_guard(row, td.updatedat) \/ ~member_ok
     THEN /\ UNCHANGED <<tickets, user_comments>>
          /\ effects' = <<>>
          /\ last' = Op("check_ticket_status", t, NoPayload,
                        IF ~found THEN "skipped"
                        ELSE IF ~poll_guard(row, td.updatedat) THEN "unchanged"
                        ELSE "aborted", row, fps, FALSE)
     ELSE
       \E okC \in Outcomes(sendC, BOOLEAN),
          okP \in Outcomes(branch # "other", BOOLEAN),
          del_ok \in Outcomes(branch = "rating" /\ Truthy(row.message_id), BOOLEAN),
          remind \in Outcomes(status \in NOTIFY_STATUSES, BOOLEAN) :
        \E okR \in Outcomes(remind, BOOLEAN) :
         /\ tickets' = Put(tickets, t, poll_result_row(row, td, lec, del_ok, remind))
         /\ user_comments' = IF doClear THEN clear_user_comments(user_comments, t)
                             ELSE user_comments
         /\ effects' = poll_effects(lec, sendC, okC, branch, okP, doClear, remind, okR)
         /\ last' = Op("check_ticket_status", t, NoPayload, "ok", row, fps, FALSE)

\* ------------------------------------------------------------------------
\* Sequential specification: whole handlers, one at a time
\* ------------------------------------------------------------------------
DoWebhook ==
  \E p \in Payloads : idk_webhook(p)

DoCreate ==
  \E t \in ManagedIds, u \in Users, sent \in {NULL, BotMsgId} :
    create_ticket_handler(t, u, OPEN_STATUS_ID, sent)

DoComment ==
  \E t \in ManagedIds, u \in Users, c \in UserTexts,
     put_ok \in BOOLEAN, del_ok \in BOOLEAN :
    add_comment_to_ticket(t, u, c, put_ok, del_ok)

Next == DoWebhook \/ DoCreate \/ DoComment \/ Restart

Spec == Init /\ [][Next]_vars

\* ------------------------------------------------------------------------
\* Sequential specification with status polling enabled
\* ------------------------------------------------------------------------
\* webhook bodies of the specification with polling
PollPayloads == {Pay("t1", EchoRaw, NULL), Pay("t1", <<>>, DONE)}

DoWebhookPoll ==
  \E p \in PollPayloads : idk_webhook(p)

DoPoll ==
  \E t \in ManagedIds, found \in BOOLEAN :
    \E td \in Outcomes(found, PollTds), member_ok \in Outcomes(found, BOOLEAN) :
      check_ticket_status(t, td, found, member_ok)

NextPoll == DoWebhookPoll \/ DoCreate \/ DoComment \/ DoPoll \/ Restart

SpecPoll == Init /\ [][NextPoll]_vars

\* ------------------------------------------------------------------------
\* Sequential specification over the encodings of the webhook body
\* ------------------------------------------------------------------------
DoWebhookEnc ==
  \E p \in EncPayloads : idk_webhook(p)

NextEnc == DoWebhookEnc \/ DoCreate \/ Restart

SpecEnc == Init /\ [][NextEnc]_vars

\* ------------------------------------------------------------------------
\* Sequential specification over bodies with several comment candidates
\* ------------------------------------------------------------------------
DoWebhookPick ==
  \E p \in PickPayloads : idk_webhook(p)

NextPick == DoWebhookPick \/ DoCreate \/ DoComment \/ Restart

SpecPick == Init /\ [][NextPick]_vars

\* ------------------------------------------------------------------------
\* Ingress of the webhook receiver: the shared-secret check
\* ------------------------------------------------------------------------
\* request.headers.get returns None for a header the request does not carry
NoHeader == "#none"
SecretValue == "s3cret"
\* what the request carries in the secret header
Headers == {NoHeader, "", "wrong", SecretValue}
\* secret_value of the configuration, "" when it is not set
ConfiguredValues == {"", SecretValue}

authorized_lax(secret, configured) == secret = configured

\* the negation of `not IDK_SECRET_VALUE or secret != IDK_SECRET_VALUE`
authorized(secret, configured) == configured # "" /\ secret = configured

\* the request handler with its check of the header; configured: the value
\* the process read from its configuration when it started
idk_webhook_request(p, secret, configured) ==
  IF authorized(secret, configured)
  THEN idk_webhook(p)
  ELSE /\ effects' = <<>>
       /\ last' = [Op("idk_webhook", p.ticket_id, p, "forbidden", ZeroRow, {}, FALSE)
                     EXCEPT !.auth = <<secret, configured>>]
       /\ UNCHANGED <<tickets, user_comments, seen_ids, submitted, age, concvars>>

AuthPayloads == {Pay("t1", EngineerRaw, NEEDS_REPLY), Pay("t1", <<>>, DONE)}

DoRequest ==
  \E p \in AuthPayloads, secret \in Headers, configured \in ConfiguredValues :
    idk_webhook_request(p, secret, configured)

NextAuth == DoRequest \/ DoCreate \/ DoComment \/ Restart

SpecAuth == Init /\ [][NextAuth]_vars

\* ------------------------------------------------------------------------
\* Chat delivery: tg_send and the chunks of a long message
\* ------------------------------------------------------------------------
\* re.split(r"(\n\n+|(?<=\.)\s)", text) from position i on, the segment
\* in progress starting at from: texts and separators in turn
RECURSIVE SplitFrom(_, _, _)
SplitFrom(s, i, from) ==
  IF i > Len(s) THEN <<SubSeq(s, from, Len(s))>>
  ELSE IF s[i] = "\n" /\ i < Len(s) /\ s[i + 1] = "\n"
  THEN LET n == RunLen(SubSeq(s, i, Len(s)), {"\n"}) IN
       <<SubSeq(s, from, i - 1), SubSeq(s, i, i + n - 1)>>
         \o SplitFrom(s, i + n, i + n)
  ELSE IF s[i] \in WsTokens /\ i > 1 /\ s[i - 1] = "."
  THEN <<SubSeq(s, from, i - 1), <<s[i]>>>> \o SplitFrom(s, i + 1, i + 1)
  ELSE SplitFrom(s, i + 1, from)

RECURSIVE Slices(_, _)
Slices(seg, limit) ==
  IF seg = <<>> THEN <<>>
  ELSE IF Len(seg) <= limit THEN <<seg>>
  ELSE <<SubSeq(seg, 1, limit)>> \o Slices(SubSeq(seg, limit + 1, Len(seg)), limit)

\* the loop of chunk_text over the segments left, buf: the part in progress
RECURSIVE Pack(_, _, _)
Pack(segs, buf, limit) ==
  IF segs = <<>> THEN (IF buf # <<>> THEN <<buf>> ELSE <<>>)
  ELSE LET seg == Head(segs) IN
       IF seg = <<>> THEN Pack(Tail(segs), buf, limit)
       ELSE IF Len(buf) + Len(seg) <= limit THEN Pack(Tail(segs), buf \o seg, limit)
       ELSE (IF buf # <<>> THEN <<buf>> ELSE <<>>)
            \o (IF Len(seg) <= limit THEN Pack(Tail(segs), seg, limit)
                ELSE Slices(seg, limit) \o Pack(Tail(segs), <<>>, limit))

chunk_text(text, limit) ==
  IF Len(text) <= limit THEN <<text>> ELSE Pack(SplitFrom(text, 1, 1), <<>>, limit)

\* reply only in groups, whose chat ids are negative
reply_kwargs(chat_id, reply_to_message_id) ==
  IF chat_id < 0 /\ Truthy(reply_to_message_id) THEN reply_to_message_id ELSE NULL

\* what the i-th of total pieces is sent as; the mark stands for
\* "(continuation i/total)" and a line break
piece_to_send(pieces, i) ==
  IF Len(pieces) = 1 \/ i = 1 THEN pieces[i]
  ELSE <<"(", ToString(i), "/", ToString(Len(pieces)), ")", "\n">> \o pieces[i]

\* one send_message of tg_send: accepted at once, accepted on the second
\* attempt after RetryAfter, refused again on that attempt (which raises),
\* Forbidden, any other error
SendOutcomes == {"sent", "retried", "retry_failed", "forbidden", "error"}
Accepted == {"sent", "retried"}

\* the answers to the sends of one call: the loop goes on after an
\* accepted piece and ends with the first that is not, or with the last
SendRun(outs, total) ==
  /\ Len(outs) \in 1..total
  /\ \A i \in 1..(Len(outs) - 1) : outs[i] \in Accepted
  /\ Len(outs) < total => outs[Len(outs)] \notin Accepted

Attempt(i, piece, outcome, reply_to) ==
  [kind |-> "chunk", i |-> i, text |-> piece, ok |-> outcome \in Accepted,
   outcome |-> outcome, reply_to |-> reply_to]

\* tg_send; outs: what Telegram answers to each send of the call
tg_send(chat_id, text, reply_to_message_id, outs) ==
  LET pieces == chunk_text(text, TG_LIMIT)
      k == Len(outs)
  IN
  /\ SendRun(outs, Len(pieces))
  /\ effects' = [i \in 1..k |->
                  Attempt(i, piece_to_send(pieces, i), outs[i],
                          IF i = 1 THEN reply_kwargs(chat_id, reply_to_message_id)
                          ELSE NULL)]
  /\ last' = [Op("tg_send", "none", NoPayload,
                 IF outs[k] = "retry_failed" THEN "raised" ELSE "returned",
                 ZeroRow, {}, FALSE) EXCEPT !.n = Len(pieces)]
  /\ UNCHANGED <<tickets, user_comments, seen_ids, submitted, age, concvars>>

\* messages of one, two, three and four pieces
SendTexts ==
  {<<"O", "k", ".">>,
   <<"O", "k", ".", " ", "D", "o", "n", "e", ".">>,
   <<"O", "k", ".", "\n", "\n", "D", "o", "n", "e", ".", "\n", "\n", "O", "k", ".">>,
   <<"D", "o", "n", "e", "D", "o", "n", "e", "D", "o", "n", "e", "D", "o",
     "n", "e", "D", "o">>}

MaxPieces == 4
GroupChat == 0 - 100

NextSend ==
  \E chat_id \in {GroupChat} \cup Users, text \in SendTexts,
     rid \in {NULL, UserMsgId}, k \in 1..MaxPieces :
    \E acc \in [1..(k - 1) -> Accepted], out \in SendOutcomes :
      tg_send(chat_id, text, rid, Append(acc, out))

SpecSend == Init /\ [][NextSend]_vars

\* ------------------------------------------------------------------------
\* Sequential specification over a status that is notify-worthy and final
\* ------------------------------------------------------------------------
DualPayloads == {Pay("t1", <<>>, CLOSED), Pay("t1", <<>>, IN_WORK)}

DualTds == {Td(st, u, <<>>) : st \in {CLOSED, IN_WORK}, u \in {"u1", "u2"}}

DoWebhookDual == \E p \in DualPayloads : idk_webhook(p)

DoPollDual ==
  \E t \in ManagedIds, found \in BOOLEAN :
    \E td \in Outcomes(found, DualTds), member_ok \in Outcomes(found, BOOLEAN) :
      check_ticket_status(t, td, found, member_ok)

NextDual == DoWebhookDual \/ DoPollDual \/ DoCreate \/ Restart

SpecDual == Init /\ [][NextDual]_vars

\* ------------------------------------------------------------------------
\* Notify prompts over a run: webhook passes that keep the history of the
\* notify prompts the chat accepted, next to polling passes
\* ------------------------------------------------------------------------
NotifyPayloads == {Pay("t1", <<>>, NEEDS_REPLY), Pay("t1", <<>>, IN_WORK)}

NotifyTds == {Td(st, u, <<>>) : st \in {DONE, NEEDS_REPLY}, u \in {"u1", "u2"}}

\* the chat accepted a notify prompt among the effects es
NotifyAccepted(es) == \E i \in 1..Len(es) : es[i].kind = "notify" /\ es[i].ok

\* prompts holds the pairs of ticket and status a webhook pass delivered a
\* notify prompt for
InitNotify ==
  /\ backend = [status |-> OPEN_STATUS_ID, hist |-> <<>>, commented |-> FALSE]
  /\ inflight = {}
  /\ procs = [x \in Procs |-> IdleProc]
  /\ prompts = {}
  /\ tickets = [x \in {} |-> ZeroRow]
  /\ user_comments = {}
  /\ seen_ids = <<>>
  /\ effects = <<>>
  /\ last = Op("init", "none", NoPayload, "", ZeroRow, {}, FALSE)
  /\ submitted = [t \in TicketIds |-> {}]
  /\ age = [d \in Digests |-> SeenCap + 1]

DoWebhookNotify ==
  \E p \in NotifyPayloads :
    /\ idk_webhook_pass(p)
    /\ prompts' = IF NotifyAccepted(effects')
                  THEN prompts \cup {<<p.ticket_id, pick_status(p)>>}
                  ELSE prompts

DoPollNotify ==
  \E t \in ManagedIds, found \in BOOLEAN :
    \E td \in Outcomes(found, NotifyTds), member_ok \in Outcomes(found, BOOLEAN) :
      check_ticket_status(t, td, found, member_ok)

NextNotify == DoWebhookNotify \/ DoPollNotify \/ DoCreate \/ Restart

SpecNotify == InitNotify /\ [][NextNotify]_vars

\* ------------------------------------------------------------------------
\* Comments that reopen: webhook passes that report the statuses a comment
\* reopens from and the statuses it leaves, next to the user's comments
\* ------------------------------------------------------------------------
REOPENED == 106941

ReopenPayloads ==
  {Pay("t1", <<>>, st) : st \in {OPEN_STATUS_ID, REOPENED, NEEDS_REPLY, IN_WORK}}

DoWebhookReopen == \E p \in ReopenPayloads : idk_webhook(p)

NextReopen == DoWebhookReopen \/ DoCreate \/ DoComment \/ Restart

SpecReopen == Init /\ [][NextReopen]_vars

\* ------------------------------------------------------------------------
\* Reminders: the polling pass runs again and again, and the clock
\* conditions of the reminder hold at a pass again and again
\* ------------------------------------------------------------------------
RemindPayloads == {Pay("t1", <<>>, NEEDS_REPLY), Pay("t1", <<>>, IN_WORK)}

RemindTds == {Td(st, u, <<>>) : st \in {NEEDS_REPLY, IN_WORK}, u \in {"u1", "u2"}}

DoWebhookRemind == \E p \in RemindPayloads : idk_webhook(p)

DoPollRemind ==
  \E t \in ManagedIds, found \in BOOLEAN :
    \E td \in Outcomes(found, RemindTds), member_ok \in Outcomes(found, BOOLEAN) :
      check_ticket_status(t, td, found, member_ok)

\* a pass that reaches the task at a time when the clock conditions of the
\* reminder hold: it sends the reminder unless it leaves the task alone as
\* not updated
PollDue ==
  /\ DoPollRemind
  /\ last'.ret = "ok" => \E i \in 1..Len(effects') : effects'[i].kind = "reminder"
  /\ last'.ret \notin {"skipped", "aborted"}

NextRemind == DoWebhookRemind \/ DoPollRemind \/ DoCreate \/ Restart

\* run_repeating starts a pass every five seconds, and time goes on
SpecRemind == Init /\ [][NextRemind]_vars /\ SF_vars(PollDue)

\* ------------------------------------------------------------------------
\* Ratings: the callback of the rating keyboard
\* ------------------------------------------------------------------------
Stranger == 43

\* the users who can press a button of the keyboard
Clickers == Users \cup {Stranger}

\* str(user.id)
str_id(u) == IF u = Stranger THEN "43" ELSE "42"

\* the user ids a callback data can carry: "042" is read as 42 by int and
\* differs from str(42)
ExpectedIds == {"42", "43", "042"}

\* get_ticket_info: the row, a tuple of None for a ticket that has no row
get_ticket_info(tk, t) == IF t \in DOMAIN tk THEN tk[t] ELSE ZeroRow

Click(clicker, expected) == [clicker |-> clicker, expected |-> expected]

\* variant: only the callback data is compared
rating_refused_data(clicker, expected, user_id_db) == str_id(clicker) # expected

\* only the owner of the ticket may rate it
rating_refused(clicker, expected, user_id_db) ==
  str_id(clicker) # expected \/ clicker # user_id_db

\* handle_rating for callback data rate_{t}_{expected}_{rating} pressed by
\* clicker; eval_ok: the backend accepted update_ticket_evaluation; del_ok:
\* the removal of the stored message did not raise
handle_rating(t, clicker, expected, eval_ok, del_ok) ==
  LET row == get_ticket_info(tickets, t)
      fps == Fingerprints(user_comments, t)
      click == Click(clicker, expected)
  IN
  /\ UNCHANGED <<user_comments, seen_ids, submitted, age, concvars>>
  /\ IF rating_refused(clicker, expected, row.user_id)
     THEN /\ UNCHANGED tickets
          /\ effects' = <<>>
          /\ last' = Op("handle_rating", t, click, "refused", row, fps, FALSE)
     ELSE IF ~eval_ok
     THEN /\ UNCHANGED tickets
          /\ effects' = <<Effect("evaluation", <<>>, FALSE)>>
          /\ last' = Op("handle_rating", t, click, "failed", row, fps, FALSE)
     ELSE /\ tickets' = IF Truthy(row.message_id) /\ del_ok
                        THEN Put(tickets, t, [row EXCEPT !.message_id = 0])
                        ELSE tickets
          /\ effects' = <<Effect("evaluation", <<>>, TRUE)>>
          /\ last' = Op("handle_rating", t, click, "rated", row, fps, FALSE)

RatePayloads == {Pay("t1", <<>>, DONE), Pay("t1", <<>>, IN_WORK)}

DoWebhookRate == \E p \in RatePayloads : idk_webhook(p)

DoRate ==
  \E t \in TicketIds, clicker \in Clickers, expected \in ExpectedIds :
    \E eval_ok \in BOOLEAN, del_ok \in BOOLEAN :
      handle_rating(t, clicker, expected, eval_ok, del_ok)

NextRate == DoWebhookRate \/ DoCreate \/ DoRate \/ Restart

SpecRate == Init /\ [][NextRate]_vars

\* ------------------------------------------------------------------------
\* Concurrent passes: handlers that suspend at each awaited chat delivery,
\* and the polling job of the other process
\* ------------------------------------------------------------------------
\* A handler runs from one await to the next without interruption (one
\* event loop); the polling job runs in the bot process and is cut at its
\* snapshot, its request to the backend, its sends and its writes.  The
\* history variables effects and last are not kept here: prompts counts
\* the notify and rating prompts per status transition of the backend.
ConcTicket == "t1"

\* updatedat of the task after its n-th status transition
UpdatedAt(n) ==
  CASE n = 0 -> "u0"
    [] n = 1 -> "u1"
    [] n = 2 -> "u2"
    [] OTHER -> "u3"

Epoch == Len(backend.hist)

Delivery(p, e) == [p |-> p, epoch |-> e]

\* IntraDesk moves the task to another status, with or without a comment
\* of the engineer, and issues a webhook call for it
BackendChange ==
  /\ ConcTicket \in DOMAIN tickets
  /\ Epoch < MaxEpoch
  /\ \E st \in {NEEDS_REPLY, DONE} \ {backend.status}, c \in BOOLEAN :
       /\ backend' = [status |-> st, hist |-> Append(backend.hist, st),
                      commented |-> c]
       /\ inflight' = inflight \cup
            {Delivery(Pay(ConcTicket, IF c THEN EngineerRaw ELSE <<>>, st), Epoch + 1)}
  /\ UNCHANGED <<tickets, user_comments, seen_ids, effects, last, submitted,
                 age, procs, prompts>>

Bump(pr, kind, e) == [pr EXCEPT ![kind][e] = IF @ < 2 THEN @ + 1 ELSE @]

\* where a handler stops next and what it has written by then; tk, uc: the
\* tables, L: the handler's local variables
Stop(tk, uc, pc) == [tk |-> tk, uc |-> uc, pc |-> pc]

\* from the final-status check to the response
AfterRating(tk, uc, L) ==
  Stop(tk, IF clear_due(L.status)
           THEN clear_user_comments(uc, L.payload.ticket_id) ELSE uc, "idle")

\* from the rating condition to the awaited send_rating_prompt
AfterNotify(tk, uc, L) ==
  IF rating_due(L.owner, L.changed, L.status)
  THEN Stop(tk, uc, "rating") ELSE AfterRating(tk, uc, L)

\* from the read of notified_status to the awaited notify prompt
AfterComment(tk, uc, L) ==
  IF notify_due(tk[L.payload.ticket_id], L.changed, L.status)
  THEN Stop(tk, uc, "notify") ELSE AfterNotify(tk, uc, L)

Resume(h, L, stop) ==
  /\ tickets' = stop.tk
  /\ user_comments' = stop.uc
  /\ procs' = [procs EXCEPT ![h] = IF stop.pc = "idle" THEN IdleProc
                                   ELSE [L EXCEPT !.pc = stop.pc]]

\* the handler from the request to its first awaited delivery
HBegin(h) ==
  /\ procs[h].pc = "idle"
  /\ \E d \in inflight :
       LET p == d.p
           t == p.ticket_id
           row == tickets[t]
           status == pick_status(p)
           L == [IdleProc EXCEPT !.payload = p, !.epoch = d.epoch,
                                 !.status = status,
                                 !.changed = status_changed(row, status),
                                 !.owner = row.user_id]
           tk1 == Put(tickets, t, update_ticket_status(row, status))
           chosen == chosen_comment(Fingerprints(user_comments, t), p)
       IN
       /\ inflight' = inflight \ {d}
       /\ seen_ids' = seen_ids_after(seen_ids, Digest(p))
       /\ IF seen_event(seen_ids, Digest(p)) \/ t \notin DOMAIN tickets
          THEN UNCHANGED <<tickets, user_comments, procs>>
          ELSE Resume(h, L, IF chosen # <<>> THEN Stop(tk1, user_comments, "comment")
                            ELSE AfterComment(tk1, user_comments, L))
  /\ UNCHANGED <<effects, last, submitted, age, backend, prompts>>

\* tg_send of the comment returned
HCommentSent(h) ==
  /\ procs[h].pc = "comment"
  /\ Resume(h, procs[h], AfterComment(tickets, user_comments, procs[h]))
  /\ UNCHANGED <<seen_ids, effects, last, submitted, age, backend, inflight, prompts>>

\* tg_send of the notify prompt returned
HNotifySent(h) ==
  LET L == procs[h]
      t == L.payload.ticket_id
      tk1 == Put(tickets, t, notify_write(tickets[t], L.status))
  IN
  /\ L.pc = "notify"
  /\ prompts' = Bump(prompts, "notify", L.epoch)
  /\ Resume(h, L, AfterNotify(tk1, user_comments, L))
  /\ UNCHANGED <<seen_ids, effects, last, submitted, age, backend, inflight>>

\* send_rating_prompt returned mid
HRatingSent(h) ==
  LET L == procs[h]
      t == L.payload.ticket_id
  IN
  /\ L.pc = "rating"
  /\ prompts' = Bump(prompts, "rating", L.epoch)
  /\ \E mid \in {NULL, RatingMsgId} :
       Resume(h, L, AfterRating(Put(tickets, t, rating_write(tickets[t], mid)),
                                user_comments, L))
  /\ UNCHANGED <<seen_ids, effects, last, submitted, age, backend, inflight>>

\* the polling job reads the stored tickets
PSnapshot ==
  /\ procs["poll"].pc = "idle"
  /\ ConcTicket \in DOMAIN tickets
  /\ procs' = [procs EXCEPT !["poll"] =
                 [IdleProc EXCEPT !.pc = "fetch", !.row = tickets[ConcTicket]]]
  /\ UNCHANGED <<tickets, user_comments, seen_ids, effects, last, submitted,
                 age, backend, inflight, prompts>>

\* what the backend answers now
BackendTd ==
  Td(backend.status, UpdatedAt(Epoch),
     IF backend.commented THEN <<PollEvent(EngineerRaw, FALSE)>> ELSE <<>>)

\* the job asks the backend for the task and scans its lifetime; found: the
\* backend answered
PFetch ==
  LET L == procs["poll"] IN
  /\ L.pc = "fetch"
  /\ \E found \in BOOLEAN :
       procs' = [procs EXCEPT !["poll"] =
         IF found /\ poll_guard(L.row, BackendTd.updatedat)
         THEN [L EXCEPT !.pc = "send", !.td = BackendTd, !.epoch = Epoch,
                        !.lec = latest_engineer_comment(user_comments, ConcTicket,
                                                        BackendTd.lifetime)]
         ELSE IdleProc]
  /\ UNCHANGED <<tickets, user_comments, seen_ids, effects, last, submitted,
                 age, backend, inflight, prompts>>

PollBranch(L) ==
  poll_branch(L.row, poll_status_db(L.row), poll_status(L.td, poll_status_db(L.row)))

\* the arm the job takes stores the row
PollSaves(L) ==
  \/ PollBranch(L) # "other"
  \/ poll_other_saves(L.row, poll_status_db(L.row),
                      poll_status(L.td, poll_status_db(L.row)), L.lec)

\* get_chat_member, then the comment and the prompt of the arm
PSend ==
  LET L == procs["poll"] IN
  /\ L.pc = "send"
  /\ \E member_ok \in BOOLEAN :
       IF member_ok
       THEN /\ procs' = [procs EXCEPT !["poll"].pc = "save"]
            /\ prompts' = IF PollBranch(L) = "other" THEN prompts
                          ELSE Bump(prompts, PollBranch(L), L.epoch)
       ELSE /\ procs' = [procs EXCEPT !["poll"] = IdleProc]
            /\ UNCHANGED prompts
  /\ UNCHANGED <<tickets, user_comments, seen_ids, effects, last, submitted,
                 age, backend, inflight>>

\* the job stores what it decided from its snapshot
PSave ==
  LET L == procs["poll"]
      status == poll_status(L.td, poll_status_db(L.row))
  IN
  /\ L.pc = "save"
  /\ \E del_ok \in Outcomes(PollBranch(L) = "rating" /\ Truthy(L.row.message_id), BOOLEAN),
        remind \in Outcomes(status \in NOTIFY_STATUSES, BOOLEAN) :
       tickets' = IF PollSaves(L) \/ remind
                  THEN Put(tickets, ConcTicket,
                           poll_result_row(L.row, L.td, L.lec, del_ok, remind))
                  ELSE tickets
  /\ user_comments' =
       IF poll_clears(PollBranch(L), PollSaves(L), status)
       THEN clear_user_comments(user_comments, ConcTicket) ELSE user_comments
  /\ procs' = [procs EXCEPT !["poll"] = IdleProc]
  /\ UNCHANGED <<seen_ids, effects, last, submitted, age, backend, inflight, prompts>>

HandlerStep ==
  \E h \in Handlers :
    HBegin(h) \/ HCommentSent(h) \/ HNotifySent(h) \/ HRatingSent(h)

PollStep == PSnapshot \/ PFetch \/ PSend \/ PSave

NextConc == DoCreate \/ BackendChange \/ HandlerStep \/ PollStep

SpecConc == Init /\ [][NextConc]_vars

\* ------------------------------------------------------------------------
\* Concurrent deliveries of one body
\* ------------------------------------------------------------------------
\* A handler suspends in `await request.body()` before it computes the
\* digest; from there to its first chat delivery it runs without
\* interruption, seen_event included, which has no await.
DupPayloads == {Pay("t1", EngineerRaw, NEEDS_REPLY), Pay("t1", <<>>, DONE)}

\* IntraDesk sends a body, once more or for the first time
Deliver ==
  /\ \E p \in DupPayloads, c \in 1..MaxCopies :
       inflight' = inflight \cup {[p |-> p, epoch |-> 0, copy |-> c]}
  /\ inflight' # inflight
  /\ UNCHANGED <<tickets, user_comments, seen_ids, effects, last, submitted,
                 age, backend, procs, prompts>>

\* the request reached a handler, which awaits its body
HReceive(h) ==
  /\ procs[h].pc = "idle"
  /\ \E d \in inflight :
       /\ inflight' = inflight \ {d}
       /\ procs' = [procs EXCEPT ![h] = [IdleProc EXCEPT !.pc = "body", !.payload = d.p]]
  /\ UNCHANGED <<tickets, user_comments, seen_ids, effects, last, submitted,
                 age, backend, prompts>>

\* the handler from the body it read to its first awaited delivery: the
\* digest, seen_event, and the pass up to the first send
HDedup(h) ==
  LET p == procs[h].payload
      t == p.ticket_id
      dup == seen_event(seen_ids, Digest(p))
      row == tickets[t]
      status == pick_status(p)
      L == [IdleProc EXCEPT !.payload = p, !.status = status,
                            !.changed = status_changed(row, status),
                            !.owner = row.user_id]
      tk1 == Put(tickets, t, update_ticket_status(row, status))
      chosen == chosen_comment(Fingerprints(user_comments, t), p)
  IN
  /\ procs[h].pc = "body"
  /\ seen_ids' = seen_ids_after(seen_ids, Digest(p))
  /\ last' = [Op("idk_webhook", t, p, IF dup THEN "duplicate" ELSE "passed",
                 ZeroRow, {}, FALSE)
                EXCEPT !.passed = IF dup THEN last.passed ELSE last.passed \cup {p}]
  /\ IF dup \/ t \notin DOMAIN tickets
     THEN /\ procs' = [procs EXCEPT ![h] = IdleProc]
          /\ UNCHANGED <<tickets, user_comments>>
     ELSE Resume(h, L, IF chosen # <<>> THEN Stop(tk1, user_comments, "comment")
                       ELSE AfterComment(tk1, user_comments, L))
  /\ UNCHANGED <<effects, submitted, age, backend, inflight, prompts>>

DupStep ==
  \E h \in Handlers :
    HReceive(h) \/ HDedup(h) \/ HCommentSent(h) \/ HNotifySent(h) \/ HRatingSent(h)

NextDup == DoCreate \/ Deliver \/ DupStep

SpecDup == Init /\ [][NextDup]_vars

\* ------------------------------------------------------------------------
\* Concurrent passes for different tickets
\* ------------------------------------------------------------------------
CrossPayloads == {Pay("t1", EngineerRaw, NEEDS_REPLY), Pay("t2", EngineerRaw, DONE)}

\* the chat users open both tickets
DoCreateAny ==
  \E t \in TicketIds, u \in Users :
    create_ticket_handler(t, u, OPEN_STATUS_ID, BotMsgId)

DeliverCross ==
  /\ \E p \in CrossPayloads :
       inflight' = inflight \cup {[p |-> p, epoch |-> 0, copy |-> 1]}
  /\ inflight' # inflight
  /\ UNCHANGED <<tickets, user_comments, seen_ids, effects, last, submitted,
                 age, backend, procs, prompts>>

NextCross == DoCreateAny \/ DeliverCross \/ DupStep

SpecCross == Init /\ [][NextCross]_vars

\* ------------------------------------------------------------------------
\* The bot cut at its requests to the backend, next to the webhook receiver
\* ------------------------------------------------------------------------
\* The bot and the receiver are two processes over one store: a webhook
\* pass can run between any two statements of create_ticket and of
\* add_comment_to_ticket.
\* " (от пользователя <external_id>)", which create_ticket appends to the
\* description it posts
UserSuffix == <<" ", "(", "1", "2", ")">>

\* the request of the bot to the backend: the ticket, the text as sent and
\* the status it asks for
Request(t, text, st) == Pay(t, text, st)

RequestText(r) == r.lifetime[1].text

\* the operation of the bot that is under way, kept with the requests in
\* flight: where it stands, its request and the chat user
Pending(pc, req, u) == [pc |-> pc, p |-> req, owner |-> u]

BotIdle == inflight = {}

\* create_ticket posts the task; the backend answers with the id t
BCreatePost(t, u) ==
  LET req == Request(t, DescriptionText \o UserSuffix, NULL) IN
  /\ BotIdle
  /\ t \notin DOMAIN tickets
  /\ inflight' = {Pending("created", req, u)}
  /\ submitted' = [submitted EXCEPT ![t] = @ \cup {RequestText(req)}]
  /\ effects' = <<>>
  /\ last' = Op("create_ticket", t, req, "sent", ZeroRow,
                Fingerprints(user_comments, t), FALSE)
  /\ UNCHANGED <<tickets, user_comments, seen_ids, age, backend, procs, prompts>>

\* save_user_comment of the description, after the response
BCreateFingerprint ==
  \E b \in inflight :
    /\ b.pc = "created"
    /\ user_comments' = save_user_comment(user_comments, b.p.ticket_id, DescriptionText)
    /\ inflight' = {[b EXCEPT !.pc = "fingerprinted"]}
    /\ UNCHANGED <<tickets, seen_ids, effects, last, submitted, age, backend,
                   procs, prompts>>

\* save_ticket of the new row
BCreateRow ==
  \E b \in inflight :
    /\ b.pc = "fingerprinted"
    /\ tickets' = Put(tickets, b.p.ticket_id,
          save_ticket(b.owner, 0, 0, "u0", OPEN_STATUS_ID, NULL, <<>>, "none", "none"))
    /\ inflight' = {}
    /\ UNCHANGED <<user_comments, seen_ids, effects, last, submitted, age,
                   backend, procs, prompts>>

\* add_comment_to_ticket up to its request: the read of the status and
\* save_user_comment of the comment
BCommentBegin(t, u, comment) ==
  LET current_status == tickets[t].status IN
  /\ BotIdle
  /\ t \in DOMAIN tickets
  /\ UNCHANGED <<tickets, seen_ids, submitted, age, backend, procs, prompts>>
  /\ effects' = <<>>
  /\ IF comment_rejected(current_status)
     THEN /\ UNCHANGED <<user_comments, inflight>>
          /\ last' = Op("add_comment", t, NoPayload, "rejected", tickets[t],
                        Fingerprints(user_comments, t), FALSE)
     ELSE /\ user_comments' = save_user_comment(user_comments, t, comment)
          /\ inflight' = {Pending("put", Request(t, comment, desired_status(current_status)), u)}
          /\ last' = Op("add_comment", t, NoPayload, "saved", tickets[t],
                        Fingerprints(user_comments, t), FALSE)

\* the PUT of the comment and, when the backend accepted it, save_ticket
BCommentPut(put_ok) ==
  \E b \in inflight :
    LET req == b.p
        t == req.ticket_id
        row == tickets[t]
        desired == pick_status(req)
        effective == IF desired # NULL THEN desired
                     ELSE IF row.status # NULL THEN row.status ELSE OPEN_STATUS_ID
        saved == save_ticket(b.owner, row.message_id, UserMsgId,
                             row.last_updated, effective, row.notified_status,
                             row.last_engineer_comment,
                             row.last_notified_reminder, "none")
    IN
    /\ b.pc = "put"
    /\ submitted' = [submitted EXCEPT ![t] = @ \cup {RequestText(req)}]
    /\ tickets' = IF put_ok THEN Put(tickets, t, saved) ELSE tickets
    /\ inflight' = {}
    /\ effects' = <<>>
    /\ last' = Op("add_comment", t, req, "sent", row,
                  Fingerprints(user_comments, t), FALSE)
    /\ UNCHANGED <<user_comments, seen_ids, age, backend, procs, prompts>>

\* what the receiver is sent meanwhile: the echo of the user's comment,
\* the engineer's question, the closing of the task
BotPayloads ==
  {Pay("t1", EchoRaw, NULL), Pay("t1", <<>>, NEEDS_REPLY), Pay("t1", <<>>, DONE)}

DoWebhookBot == \E p \in BotPayloads : idk_webhook(p)

BotStep ==
  \/ \E t \in ManagedIds, u \in Users : BCreatePost(t, u)
  \/ BCreateFingerprint
  \/ BCreateRow
  \/ \E t \in ManagedIds, u \in Users, c \in UserTexts : BCommentBegin(t, u, c)
  \/ \E put_ok \in BOOLEAN : BCommentPut(put_ok)

NextBot == BotStep \/ DoWebhookBot \/ Restart

SpecBot == Init /\ [][NextBot]_vars

\* ------------------------------------------------------------------------
\* Event deduplicator on its own: calls of seen_event
\* ------------------------------------------------------------------------
\* the history variable age after a call with eid
age_after(eid) ==
  IF eid = NoEvent \/ age[eid] < SeenCap THEN age
  ELSE [d \in Digests |->
          IF d = eid THEN 0
          ELSE IF age[d] < SeenCap THEN age[d] + 1 ELSE age[d]]

seen_call(eid) ==
  /\ seen_ids' = seen_ids_after(seen_ids, eid)
  /\ age' = age_after(eid)
  /\ last' = [Op("seen_event", "none", NoPayload,
                 IF seen_event(seen_ids, eid) THEN "true" ELSE "false",
                 ZeroRow, {}, FALSE)
              EXCEPT !.eid = eid,
                     !.n = IF eid = NoEvent THEN SeenCap + 1 ELSE age[eid]]
  /\ UNCHANGED <<tickets, user_comments, effects, submitted, concvars>>

NextSeen == \E eid \in Digests \cup {NoEvent} : seen_call(eid)

SpecSeen == Init /\ [][NextSeen]_vars

SeenCalled == last.op = "seen_event" /\ last.eid # NoEvent

\* C6 as stated: the first call with a fingerprint returns false and
\* records it, every later call with it returns true, whatever was
\* submitted in between.
C6_AsStated ==
  SeenCalled =>
     /\ (last.ret = "true") <=> (last.n <= SeenCap)
     /\ last.eid \in Range(seen_ids)

\* C6 amended: the first call with a fingerprint returns false and records
\* it; a later call with it returns true as long as fewer than the cache's
\* capacity of other new fingerprints were recorded since it was recorded,
\* and returns false and records it again after that.
C6_SeenUntilEvicted ==
  SeenCalled =>
     /\ (last.ret = "true") <=> (last.n < SeenCap)
     /\ last.eid \in Range(seen_ids)

\* a hit on the oldest entry of the full cache
C6_Witness ==
  /\ SeenCalled
  /\ last.ret = "true"
  /\ last.n = SeenCap - 1
  /\ Len(seen_ids) = SeenCap

NoDup(ids) == \A i, j \in 1..Len(ids) : i # j => ids[i] # ids[j]

Oldest(ids) == CHOOSE x \in Range(ids) : \A y \in Range(ids) : age[y] <= age[x]

C7_Step ==
  LET eid == last'.eid IN
  /\ Len(seen_ids') <= SeenCap
  /\ NoDup(seen_ids')
  /\ \A i, j \in 1..Len(seen_ids') : i < j => age'[seen_ids'[i]] > age'[seen_ids'[j]]
  /\ last'.op = "seen_event" =>
       /\ eid \in Range(seen_ids) => seen_ids' = seen_ids
       /\ (eid # NoEvent /\ eid \notin Range(seen_ids) /\ Len(seen_ids) = SeenCap)
            => Range(seen_ids') = (Range(seen_ids) \ {Oldest(seen_ids)}) \cup {eid}

\* C7: the cache never holds more than its capacity nor a fingerprint
\* twice and keeps its entries in insertion order; recording a new
\* fingerprint at full capacity evicts exactly the oldest-inserted one; a
\* duplicate hit leaves the cache as it is.
C7_BoundedFifo == [][C7_Step]_vars

\* a recording that evicted an entry
C7_Witness ==
  /\ SeenCalled
  /\ last.ret = "false"
  /\ Len(seen_ids) = SeenCap
  /\ \E d \in Digests : age[d] = SeenCap

\* ------------------------------------------------------------------------
\* Properties of the sequential specification
\* ------------------------------------------------------------------------
\* the latest operation is a webhook pass that reached reconciliation
PassDone == last.op = "idk_webhook" /\ last.ret = "ok"

PassStatus == pick_status(last.payload)

Emitted(kind) == \E i \in 1..Len(effects) : effects[i].kind = kind

\* C1: a reconciliation pass applied a second time, directly after the
\* first, with the same payload to the same ticket leaves status,
\* notified_status and the fingerprint set as the first left them and
\* emits neither a notify prompt nor a rating prompt.
C1_Idempotent ==
  (PassDone /\ last.repeat) =>
     /\ tickets[last.ticket].status = last.pre.status
     /\ tickets[last.ticket].notified_status = last.pre.notified_status
     /\ Fingerprints(user_comments, last.ticket) = last.prefp
     /\ ~Emitted("notify")
     /\ ~Emitted("rating")

\* a second application whose first one changed the status to DONE
C1_Witness ==
  /\ PassDone /\ last.repeat
  /\ last.payload = Pay("t1", EngineerRaw, DONE)
  /\ tickets["t1"].status = DONE

\* C2 as stated: every pass that changes the stored status to a status of
\* NOTIFY_STATUSES emits a notify prompt and sets notified_status to it, and
\* a pass that reports the stored status again emits no notify prompt.
C2_AsStated ==
  PassDone =>
     /\ (status_changed(last.pre, PassStatus) /\ PassStatus \in NOTIFY_STATUSES)
          => (Emitted("notify") /\ tickets[last.ticket].notified_status = PassStatus)
     /\ (PassStatus \in NOTIFY_STATUSES /\ last.pre.status = PassStatus)
          => ~Emitted("notify")

\* C2 amended: a pass that changes the stored status to a status of
\* NOTIFY_STATUSES that differs from notified_status emits a notify prompt
\* and sets notified_status to it; a pass that reports the stored status
\* again emits no notify prompt.
C2_NotifyOnce ==
  PassDone =>
     /\ (/\ status_changed(last.pre, PassStatus)
         /\ PassStatus \in NOTIFY_STATUSES
         /\ last.pre.notified_status # PassStatus)
          => (Emitted("notify") /\ tickets[last.ticket].notified_status = PassStatus)
     /\ (PassStatus \in NOTIFY_STATUSES /\ last.pre.status = PassStatus)
          => ~Emitted("notify")

\* a pass that reports the needs-clarification status a second time
C2_Witness ==
  /\ PassDone
  /\ PassStatus = NEEDS_REPLY
  /\ last.pre.status = NEEDS_REPLY
  /\ last.pre.notified_status = NEEDS_REPLY

\* the forwarded text c is the user's text u up to soft normalization
SameText(u, c) == normalize_for_db(u) = normalize_for_db(c)

Forwarded(c) ==
  \E i \in 1..Len(effects) : effects[i].kind = "comment" /\ effects[i].text = c

ForwardedTexts == {effects[i].text : i \in {j \in 1..Len(effects) : effects[j].kind = "comment"}}

\* C3 as stated: no webhook pass forwards a text the user submitted for the
\* ticket through the bot, whatever happened to the fingerprint set since.
C3_AsStated ==
  PassDone =>
     \A c \in ForwardedTexts : \A u \in submitted[last.ticket] : ~SameText(u, c)

\* C3 amended: no webhook pass forwards a text the user submitted for the
\* ticket through the bot while the fingerprint of that text is in the
\* ticket's fingerprint set, that is until a pass with a final status has
\* cleared the set.
C3_NoEchoWhileRecorded ==
  PassDone =>
     \A c \in ForwardedTexts :
        \A u \in submitted[last.ticket] \cap last.prefp : ~SameText(u, c)

\* a pass that met the backend's echo of a recorded user text
C3_Witness ==
  /\ PassDone
  /\ last.payload = Pay("t1", EchoRaw, NULL)
  /\ UserText \in submitted["t1"] \cap last.prefp
  /\ effects = <<>>

Rank(kind) ==
  CASE kind = "comment" -> 1
    [] kind = "notify" -> 2
    [] kind = "rating" -> 3
    [] OTHER -> 4

\* C8: the effects of one webhook pass come in the order forward-comment,
\* notify prompt, rating prompt, clear-fingerprints, each at most once, so
\* a comment is sent before any status-driven prompt of the same pass.
C8_EffectOrder ==
  last.op = "idk_webhook" =>
     \A i, j \in 1..Len(effects) :
        i < j => Rank(effects[i].kind) < Rank(effects[j].kind)

\* passes that emitted a comment and a prompt
C8_Witness ==
  /\ PassDone
  /\ Len(effects) >= 2
  /\ effects[1].kind = "comment"
  /\ effects[2].kind \in {"notify", "rating"}

\* C11: after a webhook pass that raised part-way, the same raw payload
\* submitted again is processed, not answered as a duplicate, and the
\* retry emits the prompts the failed pass did not emit
C11_AsStated ==
  (last.op = "idk_webhook" /\ last.retry) =>
     /\ last.ret # "duplicate"
     /\ last.ret = "ok" => \A k \in last.owed : Emitted(k)

\* a retry that was processed to the end after a restart of the receiver
C11_RetryProcessed ==
  /\ last.op = "idk_webhook" /\ last.retry /\ last.ret = "ok"
  /\ last.owed # {}

\* C16: a webhook call whose ticket id has no row in tickets emits no chat
\* message and leaves tickets and user_comments as they were, and it is
\* answered ticket-not-found unless its body is a duplicate
C16_NotFoundWritesNothing ==
  [][(last'.op = "idk_webhook" /\ last'.ticket \notin DOMAIN tickets)
       => (/\ last'.ret \in {"not_found", "duplicate"}
           /\ effects' = <<>>
           /\ tickets' = tickets
           /\ user_comments' = user_comments)]_vars

\* an event for a ticket the bot never stored, while another ticket has a
\* row and fingerprints
C16_Witness ==
  /\ last.op = "idk_webhook"
  /\ last.ret = "not_found"
  /\ last.ticket \notin DOMAIN tickets
  /\ DOMAIN tickets # {}
  /\ user_comments # {}
  /\ effects = <<>>

\* what the pass emitted, without the clearing of the fingerprints
Messages == SelectSeq(Kinds(effects), LAMBDA k : k # "clear")

\* the status block of the latest payload
LastBlock == last.payload.status

\* the block is missing, or holds no status code in any encoding
Unparseable(b) ==
  \/ b.kind \in {"absent", "other"}
  \/ b.kind \in {"obj", "objstr"} /\ b.key \notin IdKeys

\* the candidate the pass is to forward: the longest, when it is no echo
NonEchoCandidate ==
  LET c == Longest(collect_comment_candidates(last.payload)) IN
  IF c # <<>> /\ ~user_comment_exists(last.prefp, c) THEN c ELSE <<>>

\* C17: a pass whose payload has no status, or one that cannot be parsed,
\* resolves no status, leaves the stored status, notified_status and
\* fingerprint set as they were, emits no notify or rating prompt, and
\* still forwards a comment candidate of the payload that is no echo
C17_NoStatusStillForwards ==
  (PassDone /\ Unparseable(LastBlock)) =>
     /\ PassStatus = NULL
     /\ tickets[last.ticket].status = last.pre.status
     /\ tickets[last.ticket].notified_status = last.pre.notified_status
     /\ Fingerprints(user_comments, last.ticket) = last.prefp
     /\ ~Emitted("notify")
     /\ ~Emitted("rating")
     /\ NonEchoCandidate # <<>> => Messages = <<"comment">> /\ Forwarded(NonEchoCandidate)

\* an engineer's comment next to a status that is no status code, for a
\* ticket whose stored status the user's comment had set
C17_Witness ==
  /\ PassDone
  /\ LastBlock.kind = "other"
  /\ last.pre.status # NULL
  /\ last.prefp # {}
  /\ Forwarded(clean_intradesk_html(EngineerRaw))

\* the comment data of the payload holds an entry of the wrong type
Malformed(payload) ==
  \/ \E i \in 1..Len(payload.events) : payload.events[i].block = NonObject
  \/ \E i \in 1..Len(payload.lifetime) : payload.lifetime[i].block = NonObject

\* C18: a pass over a payload with malformed comment data and a status
\* that parses runs to its end without a comment, stores the status and
\* emits the prompt the status calls for
C18_AsStated ==
  (/\ last.op = "idk_webhook"
   /\ last.ret \notin {"duplicate", "not_found"}
   /\ Malformed(last.payload)
   /\ PassStatus # NULL) =>
     /\ last.ret = "ok"
     /\ ~Emitted("comment")
     /\ tickets[last.ticket].status = PassStatus
     /\ notify_due(update_ticket_status(last.pre, PassStatus),
                   status_changed(last.pre, PassStatus), PassStatus)
          => Emitted("notify")

\* the malformed entry sits in Fields.Events, where it is skipped
C18_EventsSkipped ==
  /\ PassDone
  /\ last.payload.events # <<>>
  /\ Malformed(last.payload)
  /\ tickets[last.ticket].status = DONE

\* C19: pick_status returns the code c for each encoding of it: the bare
\* integer, the numeric string, the JSON object with the code under Id, id,
\* Value or value, and the string that holds such an object
C19_AsStated ==
  (/\ last.op = "idk_webhook"
   /\ \/ LastBlock.kind \in {"int", "numstr"}
      \/ LastBlock.kind \in {"obj", "objstr"} /\ LastBlock.key \in IdKeys)
    => /\ PassStatus = LastBlock.v
       /\ PassDone => tickets[last.ticket].status = LastBlock.v

\* the string-encoded object is resolved
C19_StringObject ==
  /\ PassDone
  /\ LastBlock.kind = "objstr" /\ LastBlock.key \in IdKeys
  /\ tickets[last.ticket].status = LastBlock.v

\* C20: a pass whose payload carries one comment in the lifetime that is no
\* echo and the status block {"Id": s}, s a rating-eligible final status
\* other than the stored one, emits the comment and then the rating
\* prompt and ends with the stored status s and no fingerprints
C20_AsStated ==
  (/\ PassDone
   /\ LastBlock.kind = "obj" /\ LastBlock.key = "Id"
   /\ LastBlock.v \in RATING_FINAL_STATUSES
   /\ LastBlock.v # last.pre.status
   /\ Len(last.payload.lifetime) = 1
   /\ NonEchoCandidate # <<>>) =>
     /\ Messages = <<"comment", "rating">>
     /\ Forwarded(NonEchoCandidate)
     /\ tickets[last.ticket].status = LastBlock.v
     /\ Fingerprints(user_comments, last.ticket) = {}

\* the scenario with the status as a bare integer
C20_BareInteger ==
  /\ PassDone
  /\ last.payload = Pay("t1", EngineerRaw, DONE)
  /\ last.pre.status # DONE
  /\ Messages = <<"comment", "rating">>
  /\ tickets["t1"].status = DONE
  /\ Fingerprints(user_comments, "t1") = {}

\* the chat refused a message of the pass: tg_send logged the error
Refused(kind) ==
  \E i \in 1..Len(effects) : effects[i].kind = kind /\ ~effects[i].ok

\* C23: when the delivery of the notify prompt fails, notified_status is
\* not set to the new status, so that a later pass can send the prompt
C23_AsStated ==
  (PassDone /\ Refused("notify")) =>
     /\ tickets[last.ticket].notified_status # PassStatus
     /\ tickets[last.ticket].notified_status = last.pre.notified_status

\* the rating prompt that was not delivered leaves message_id alone
C23_RatingNotAdvanced ==
  (PassDone /\ Refused("rating")) =>
     tickets[last.ticket].message_id = last.pre.message_id

\* C30: a pass that changes the stored status of a ticket sets its
\* status_changed_at to the time of the pass, whatever the transition, and
\* so does a comment of the user that changes the stored status
C30_AsStated ==
  /\ (PassDone /\ status_changed(last.pre, PassStatus))
       => tickets[last.ticket].status_changed_at = "now"
  /\ (last.op = "add_comment" /\ last.ret = "ok"
        /\ tickets[last.ticket].status # last.pre.status)
       => tickets[last.ticket].status_changed_at = "now"

\* the transition into the needs-clarification status does set it
C30_NotifySets ==
  /\ PassDone
  /\ Emitted("notify")
  /\ tickets[last.ticket].status_changed_at = "now"

\* the latest operation is a webhook pass that got as far as its sends
PassRan == last.op = "idk_webhook" /\ last.ret \in {"ok", "error"}

\* the candidates of the latest payload, in the order of discovery
LastCandidates == collect_comment_candidates(last.payload)

\* the comment messages of the pass
CommentEffects == SelectSeq(effects, LAMBDA e : e.kind = "comment")

\* C26: a webhook pass forwards at most one comment, the longest candidate
\* (the first of the longest in discovery order), and forwards none when
\* that candidate is classified as echo, whatever the other candidates are
C26_LongestOrNone ==
  (PassRan /\ ~extract_raises(last.payload)) =>
     /\ Len(CommentEffects) <= 1
     /\ \A i \in 1..Len(CommentEffects) :
          CommentEffects[i].text = Longest(LastCandidates)
     /\ (LastCandidates # <<>>
           /\ user_comment_exists(last.prefp, Longest(LastCandidates)))
          => CommentEffects = <<>>
     /\ (LastCandidates # <<>>
           /\ ~user_comment_exists(last.prefp, Longest(LastCandidates)))
          => Len(CommentEffects) = 1

\* the longest candidate is the backend's echo of the description and the
\* engineer's short reply comes with it: nothing is forwarded
C26_Witness ==
  /\ PassDone
  /\ Len(LastCandidates) = 2
  /\ LastCandidates[2] = DescriptionText
  /\ DescriptionText \in last.prefp
  /\ ~user_comment_exists(last.prefp, LastCandidates[1])
  /\ CommentEffects = <<>>

\* two candidates of the same length: the first discovered is forwarded
C26_FirstOfLongest ==
  /\ PassDone
  /\ Len(LastCandidates) = 2
  /\ Len(LastCandidates[1]) = Len(LastCandidates[2])
  /\ Forwarded(LastCandidates[1])

\* the rating prompt of the pass was delivered
RatingDelivered ==
  \E i \in 1..Len(effects) : effects[i].kind = "rating" /\ effects[i].ok

\* C27: a webhook pass emits a rating prompt only if it changed the stored
\* status, the new status is in RATING_FINAL_STATUSES and the ticket has
\* an owner; a transition to a final status outside that set emits none;
\* message_id is overwritten only when the prompt's delivery returned a
\* message id
C27_RatingOnlyOnEligibleChange ==
  PassDone =>
     /\ Emitted("rating") =>
          /\ status_changed(last.pre, PassStatus)
          /\ PassStatus \in RATING_FINAL_STATUSES
          /\ Truthy(last.pre.user_id)
     /\ (status_changed(last.pre, PassStatus)
           /\ PassStatus \in FINAL_STATUSES \ RATING_FINAL_STATUSES)
          => ~Emitted("rating")
     /\ tickets[last.ticket].message_id =
          IF RatingDelivered THEN RatingMsgId ELSE last.pre.message_id

\* the rating prompt was attempted and not delivered
C27_Witness ==
  /\ PassDone
  /\ status_changed(last.pre, PassStatus)
  /\ PassStatus \in RATING_FINAL_STATUSES
  /\ Emitted("rating") /\ ~RatingDelivered
  /\ Truthy(last.pre.message_id)
  /\ tickets[last.ticket].message_id = last.pre.message_id

\* a transition to the cancelled status
C27_NotEligible ==
  /\ PassDone
  /\ status_changed(last.pre, PassStatus)
  /\ PassStatus = CANCELLED
  /\ Messages = <<>>

\* the comment the latest pass delivered to the chat, <<>> when it
\* delivered none
Delivered ==
  LET cs == SelectSeq(effects, LAMBDA e : e.kind = "comment" /\ e.ok)
  IN IF cs = <<>> THEN <<>> ELSE cs[1].text

\* C31: after a pass, webhook or polling, that forwarded the engineer's
\* comment c, last_engineer_comment of the ticket is c (the polling pass
\* sends c with its markup escaped)
C31_AsStated ==
  (/\ last.op \in {"idk_webhook", "check_ticket_status"}
   /\ last.ret = "ok"
   /\ Delivered # <<>>)
    => LET lec == tickets[last.ticket].last_engineer_comment
       IN Delivered \in {lec, escape_html(lec)}

\* ------------------------------------------------------------------------
\* Properties of the status that is notify-worthy and final
\* ------------------------------------------------------------------------
DualStatuses == NOTIFY_STATUSES \cap RATING_FINAL_STATUSES

Prompts == SelectSeq(Kinds(effects), LAMBDA k : k \in {"notify", "rating"})

PollDone == last.op = "check_ticket_status" /\ last.ret = "ok"

\* the polling pass stored another status than the one it found
PollChangedTo(st) ==
  /\ PollDone
  /\ tickets[last.ticket].status = st
  /\ poll_status_db(last.pre) # st

\* C33 as stated: a webhook pass whose new status is notify-worthy and
\* rating-eligible emits both prompts, notify before rating; a polling pass
\* in that situation emits the notify prompt alone
C33_AsStated ==
  \A st \in DualStatuses :
    /\ (PassDone /\ PassStatus = st /\ status_changed(last.pre, st))
         => Prompts = <<"notify", "rating">>
    /\ PollChangedTo(st) => Prompts = <<"notify">>

\* C33 amended: a webhook pass that changes the stored status to a status
\* that is notify-worthy and rating-eligible and differs from
\* notified_status emits both prompts, notify before rating; a polling pass
\* that stores such a change emits the notify prompt alone
C33_BothThenNotifyAlone ==
  \A st \in DualStatuses :
    /\ (/\ PassDone
        /\ PassStatus = st
        /\ status_changed(last.pre, st)
        /\ last.pre.notified_status # st)
         => Prompts = <<"notify", "rating">>
    /\ (PollChangedTo(st) /\ last.pre.notified_status # st)
         => Prompts = <<"notify">>

\* a webhook pass closed the open ticket and sent both prompts
C33_Witness ==
  /\ PassDone
  /\ PassStatus = CLOSED
  /\ last.pre.status = OPEN_STATUS_ID
  /\ Kinds(effects) = <<"notify", "rating", "clear">>
  /\ tickets[last.ticket].notified_status = CLOSED

\* C34: no webhook pass and no user-comment operation resets notified_status
\* to null or to an older value; hence, in a sequential run, once a notify
\* prompt was sent for status S on a ticket, no later webhook pass emits a
\* notify prompt for S on that ticket, even after the status left S and
\* came back to it
C34_AsStated ==
  [][\A p \in NotifyPayloads :
       (idk_webhook_pass(p) /\ Len(effects') > 0 /\ effects'[1].kind = "notify")
         => <<p.ticket_id, pick_status(p)>> \notin prompts]_vars

\* C35: every webhook pass that emits a rating prompt also clears the
\* ticket's fingerprint set in the same pass: every rating-eligible status
\* is a final status
C35_RatingThenClear ==
  (last.op = "idk_webhook" /\ Emitted("rating"))
    => /\ RATING_FINAL_STATUSES \subseteq FINAL_STATUSES
       /\ Emitted("clear")
       /\ Fingerprints(user_comments, last.ticket) = {}

C35_Witness ==
  /\ PassDone
  /\ Emitted("rating")
  /\ last.prefp # {}
  /\ Fingerprints(user_comments, last.ticket) = {}

\* ------------------------------------------------------------------------
\* Properties of the comments that reopen
\* ------------------------------------------------------------------------
\* the status a successful comment leaves in the row, by the claim's cases
StatusAfterComment(st) ==
  IF st \in DOMAIN REOPEN_MAP_ON_COMMENT THEN REOPEN_MAP_ON_COMMENT[st]
  ELSE IF st \in REOPEN_STATUSES THEN OPEN_STATUS_ID
  ELSE st

CommentStored == last.op = "add_comment" /\ last.ret = "ok"

\* C38: after a successful add_comment_to_ticket on a ticket whose stored
\* status is a key of REOPEN_MAP_ON_COMMENT the stored status is the mapped
\* status; on a status in REOPEN_STATUSES that is not in the map it is
\* OPEN_STATUS_ID; on any other status that is not final it is unchanged;
\* a webhook pass that follows and reports that same status is not treated
\* as a status change
C38_StatusAfterComment ==
  /\ [](CommentStored /\ last.pre.status # NULL
          => tickets[last.ticket].status = StatusAfterComment(last.pre.status))
  /\ [][\A p \in ReopenPayloads :
          (/\ CommentStored
           /\ pick_status(p) = tickets[last.ticket].status
           /\ idk_webhook(p)
           /\ last'.ret = "ok")
            => /\ effects' = <<>>
               /\ tickets'[p.ticket_id].status = tickets[p.ticket_id].status
               /\ tickets'[p.ticket_id].notified_status
                    = tickets[p.ticket_id].notified_status]_vars

\* the ticket was notified in 106948, the user's comment reopened it, and
\* the pass that reported the open status sent nothing
C38_Witness ==
  /\ PassDone
  /\ PassStatus = OPEN_STATUS_ID
  /\ last.pre.status = OPEN_STATUS_ID
  /\ last.pre.notified_status = NEEDS_REPLY
  /\ last.pre.status_changed_at = "none"
  /\ effects = <<>>

\* ------------------------------------------------------------------------
\* Properties of the ingress
\* ------------------------------------------------------------------------
\* the header is missing, differs from the configured value, or the
\* configured value is empty
Rejectable(secret, configured) ==
  secret = NoHeader \/ secret # configured \/ configured = ""

\* C28: a request whose secret header is missing or differs from the
\* configured value, or that arrives while the configured value is empty,
\* is answered 403; it records nothing in the dedup cache, writes nothing
\* to tickets and user_comments and emits no chat message
C28_ForbiddenBeforeEffects ==
  [][\A p \in AuthPayloads, secret \in Headers, configured \in ConfiguredValues :
       (Rejectable(secret, configured) /\ idk_webhook_request(p, secret, configured))
         => /\ last'.ret = "forbidden"
            /\ seen_ids' = seen_ids
            /\ tickets' = tickets
            /\ user_comments' = user_comments
            /\ effects' = <<>>]_vars

\* a request for an open ticket, with a status and a comment the cache has
\* not recorded, was refused: the configured value is empty and so is
\* the header
C28_Witness ==
  /\ last.op = "idk_webhook"
  /\ last.ret = "forbidden"
  /\ last.auth = <<"", "">>
  /\ last.payload = Pay("t1", EngineerRaw, NEEDS_REPLY)
  /\ "t1" \in DOMAIN tickets
  /\ tickets["t1"].status = OPEN_STATUS_ID
  /\ ~seen_event(seen_ids, Digest(last.payload))

\* C37: when the backend rejects the write of add_comment_to_ticket, the
\* operation returns failure and the ticket row (status, last_comment,
\* last_user_message_id, notified_status) is unchanged, while the
\* fingerprint recorded before the write remains in the ticket's
\* fingerprint set
C37_RejectedWriteKeepsRow ==
  (last.op = "add_comment" /\ last.ret = "failed")
    => /\ tickets[last.ticket] = last.pre
       /\ Fingerprints(user_comments, last.ticket) = last.prefp \cup {UserText}

\* the backend rejected a comment whose fingerprint was not yet stored
C37_Witness ==
  /\ last.op = "add_comment"
  /\ last.ret = "failed"
  /\ UserText \notin last.prefp
  /\ UserText \in Fingerprints(user_comments, last.ticket)
  /\ last.pre.status = NEEDS_REPLY

\* ------------------------------------------------------------------------
\* Properties of the chat delivery
\* ------------------------------------------------------------------------
\* the pieces of the message that reached the chat
DeliveredPieces == SelectSeq(effects, LAMBDA a : a.ok)

\* C24: a message that tg_send splits into several chunks is delivered
\* whole or not at all, whatever send fails: after the call either every
\* chunk reached the chat or none did
C24_AsStated ==
  last.op = "tg_send" => Len(DeliveredPieces) \in {0, last.n}

\* ------------------------------------------------------------------------
\* Properties of the specification with polling
\* ------------------------------------------------------------------------
\* the latest operation is a pass, by webhook or by polling, that reached
\* the stored ticket
AnyPassDone ==
  /\ last.op \in {"idk_webhook", "check_ticket_status"}
  /\ last.ret = "ok"

IsFinal(st) == st # NULL /\ st \in FINAL_STATUSES

\* C4: after a pass, webhook or polling, in which the stored status changes
\* to a final status the fingerprint set of the ticket is empty; after a
\* pass that moves the stored status from a final status back to an open
\* one the set is still empty.
C4_AsStated ==
  AnyPassDone =>
     /\ (~IsFinal(last.pre.status) /\ IsFinal(tickets[last.ticket].status))
          => Fingerprints(user_comments, last.ticket) = {}
     /\ (IsFinal(last.pre.status) /\ ~IsFinal(tickets[last.ticket].status))
          => Fingerprints(user_comments, last.ticket) = {}

\* C5: at the end of every webhook pass for a ticket whose stored status is
\* final the fingerprint set of the ticket is empty, whether or not the
\* pass made a status transition.
C5_AsStated ==
  (PassDone /\ IsFinal(tickets[last.ticket].status))
     => Fingerprints(user_comments, last.ticket) = {}

\* the ticket waits for the user's answer
Waiting(t) == t \in DOMAIN tickets /\ tickets[t].status \in NOTIFY_STATUSES

\* the latest operation is a polling pass that sent a reminder
Reminded(t) ==
  last.op = "check_ticket_status" /\ last.ticket = t /\ Emitted("reminder")

\* C39: the polling pass sends a reminder only for a ticket whose status is
\* in NOTIFY_STATUSES, when two hours have passed since status_changed_at,
\* no client comment is newer and last_notified_reminder is absent or older
\* than 24 hours, and stores the time in last_notified_reminder; a ticket
\* that stays in that state with no client comment eventually receives a
\* reminder
C39_AsStated ==
  /\ [](\A t \in ManagedIds :
          Reminded(t) => /\ tickets[t].status \in NOTIFY_STATUSES
                         /\ tickets[t].last_notified_reminder = "now")
  /\ \A t \in ManagedIds : Waiting(t) ~> (Reminded(t) \/ ~Waiting(t))

\* ------------------------------------------------------------------------
\* Properties of the ratings
\* ------------------------------------------------------------------------
\* the user who pressed the button is the one of the callback data and the
\* owner stored with the ticket
OwnerClicked ==
  /\ str_id(last.payload.clicker) = last.payload.expected
  /\ last.payload.clicker = last.pre.user_id

\* C40: handle_rating writes a rating to the backend only when the clicking
\* user's id equals both the user id of the callback data and the stored
\* owner user_id of the ticket; for any other user no rating is written and
\* the ticket's message_id is unchanged
C40_OnlyOwnerRates ==
  last.op = "handle_rating"
    => /\ Emitted("evaluation") => OwnerClicked
       /\ ~OwnerClicked
            => /\ effects = <<>>
               /\ get_ticket_info(tickets, last.ticket).message_id
                    = last.pre.message_id

\* a stranger pressed a button whose data carries the stranger's id, on a
\* ticket that has its rating prompt
C40_Witness ==
  /\ last.op = "handle_rating"
  /\ last.ret = "refused"
  /\ last.payload = Click(Stranger, "43")
  /\ last.pre.message_id = RatingMsgId
  /\ tickets[last.ticket].message_id = RatingMsgId

\* ------------------------------------------------------------------------
\* Properties of the concurrent specification
\* ------------------------------------------------------------------------
\* the pass p has read the stored ticket and will write it again: a handler
\* suspended in a chat delivery with a write of notified_status or the
\* clearing of the fingerprints ahead, the polling job between its prompt
\* and its save_ticket
MidPass(p) ==
  IF p \in Handlers
  THEN /\ procs[p].pc \in {"comment", "notify", "rating"}
       /\ (procs[p].pc = "notify" \/ clear_due(procs[p].status))
  ELSE procs[p].pc = "save" /\ PollSaves(procs[p])

\* C9: passes for one ticket are serialized: no pass reads or writes the
\* stored ticket while another pass for it is between its first read and
\* its last write, a pass suspended in a chat delivery included.
C9_AsStated ==
  \A p, q \in Procs : p # q => ~(MidPass(p) /\ MidPass(q))

Quiescent == inflight = {} /\ \A p \in Procs : procs[p].pc = "idle"

OnePromptPerTransition ==
  \A e \in Epochs : prompts["notify"][e] <= 1 /\ prompts["rating"][e] <= 1

NotifyNotLost ==
  (/\ Quiescent
   /\ ConcTicket \in DOMAIN tickets
   /\ tickets[ConcTicket].status \in NOTIFY_STATUSES)
     => \E e \in 1..Epoch : /\ backend.hist[e] \in NOTIFY_STATUSES
                            /\ prompts["notify"][e] >= 1

\* C10: under every interleaving of the passes for one ticket one status
\* transition of the backend produces at most one notify prompt and at most
\* one rating prompt, and a ticket the passes left in a needs-clarification
\* status has had its notify prompt.
C10_AsStated == OnePromptPerTransition /\ NotifyNotLost

\* ------------------------------------------------------------------------
\* Properties of the concurrent deliveries of one body
\* ------------------------------------------------------------------------
\* the handler is past the dedup check, suspended in a chat delivery
InPass(h) == procs[h].pc \in {"comment", "notify", "rating"}

PassStep(h) ==
  HDedup(h) \/ HCommentSent(h) \/ HNotifySent(h) \/ HRatingSent(h)

RowOf(tk, t) == IF t \in DOMAIN tk THEN <<tk[t]>> ELSE <<>>

\* C22: every step of a webhook pass for ticket A leaves the row and the
\* fingerprints of every other ticket B as they were, whatever the other
\* handler is doing
C22_NoCrossTicketWrites ==
  [][\A h \in Handlers :
       PassStep(h) =>
         \A B \in TicketIds \ {procs[h].payload.ticket_id} :
           /\ RowOf(tickets', B) = RowOf(tickets, B)
           /\ Fingerprints(user_comments', B) = Fingerprints(user_comments, B)]_vars

\* the pass for t2 has ended with its fingerprints cleared while the pass
\* for t1 is suspended in a chat delivery, and t1 still has its
\* fingerprint and its status written by that pass
C22_Witness ==
  /\ {"t1", "t2"} \subseteq DOMAIN tickets
  /\ tickets["t2"].status = DONE
  /\ Fingerprints(user_comments, "t2") = {}
  /\ \E h \in Handlers : InPass(h) /\ procs[h].payload.ticket_id = "t1"
  /\ tickets["t1"].status = NEEDS_REPLY
  /\ Fingerprints(user_comments, "t1") # {}

\* ------------------------------------------------------------------------
\* Properties of the bot next to the receiver
\* ------------------------------------------------------------------------
\* the latest operation issued a write to the backend
WriteIssued == last.op \in {"create_ticket", "add_comment"} /\ last.ret = "sent"

\* C21: every text the bot sends to the backend for a ticket, the comment
\* of add_comment_to_ticket and the description of create_ticket, is in
\* the fingerprints of the ticket at the moment the write is issued
C21_AsStated ==
  WriteIssued => RequestText(last.payload) \in last.prefp

\* the PUT of add_comment_to_ticket found the ticket in a final status:
\* the operation refuses final tickets when it starts, so a webhook pass
\* has written the row since the operation read it
PassWroteMeanwhile ==
  /\ last.op = "add_comment"
  /\ last.ret = "sent"
  /\ last.pre.status \in FINAL_STATUSES

\* C32: add_comment_to_ticket does not replace the status, notified_status
\* or status_changed_at that a webhook pass for the ticket wrote while the
\* operation was under way by what it read or derived before
C32_AsStated ==
  PassWroteMeanwhile =>
    LET row == tickets[last.ticket] IN
    /\ row.status = last.pre.status
    /\ row.notified_status = last.pre.notified_status
    /\ row.status_changed_at = last.pre.status_changed_at

\* C36: add_comment_to_ticket called for a ticket whose stored status is
\* final returns failure: it records no fingerprint, issues no write to the
\* backend and leaves the ticket row as it is
C36_FinalRejected ==
  (/\ last.op = "add_comment"
   /\ last.ret # "sent"
   /\ last.pre.status # NULL
   /\ last.pre.status \in FINAL_STATUSES)
    => /\ last.ret = "rejected"
       /\ inflight = {}
       /\ tickets[last.ticket] = last.pre
       /\ Fingerprints(user_comments, last.ticket) = last.prefp

\* the user commented on a ticket that is done
C36_Witness ==
  /\ last.op = "add_comment"
  /\ last.ret = "rejected"
  /\ last.pre.status = DONE
  /\ UserText \notin last.prefp

\* ------------------------------------------------------------------------
\* Echo detector on its own: calls of user_comment_exists
\* ------------------------------------------------------------------------
\* user_comment_exists(ticket_id, text) with rows stored for the ticket
echo_call(rows, text) ==
  LET found == user_comment_exists(rows, text) IN
  /\ effects' = <<Effect("echo", text, found)>>
  /\ last' = Op("user_comment_exists", "t1", NoPayload,
                IF found THEN "true" ELSE "false", ZeroRow, rows, FALSE)
  /\ UNCHANGED <<tickets, user_comments, seen_ids, submitted, age, concvars>>

NextEcho == \E rows \in SUBSET StoredTexts, text \in EchoCandidates : echo_call(rows, text)

SpecEcho == Init /\ [][NextEcho]_vars

EchoCalled == last.op = "user_comment_exists"

\* the candidate and the rows of the latest call, and what it returned
EchoText == effects[1].text
EchoRows == last.prefp
EchoResult == last.ret = "true"

\* some stored text equals the candidate after soft normalization
SoftMatch ==
  \E u \in EchoRows : /\ normalize_for_db(u) # <<>>
                       /\ normalize_for_db(u) = normalize_for_db(EchoText)

\* the letters and digits of a text
WordChars(s) == Range(normalize_strict(s))

\* C12: a candidate whose strict-normalized form is shorter than 24
\* characters, the empty form included, is classified as echo only when its
\* soft-normalized form equals a stored soft-normalized fingerprint
C12_AsStated ==
  (EchoCalled /\ Len(normalize_strict(EchoText)) < MinEchoLen /\ EchoResult)
    => SoftMatch

\* C13: when the candidate and every stored fingerprint are under 24
\* characters, user_comment_exists returns true exactly when the
\* soft-normalized candidate equals a soft-normalized fingerprint; texts
\* that differ only in punctuation are not echo
C13_ShortExactOnly ==
  (EchoCalled /\ Len(EchoText) < MinEchoLen
     /\ \A u \in EchoRows : Len(u) < MinEchoLen)
    => (EchoResult <=> SoftMatch)

\* "ok." against the stored "Ok!": the same letters, other punctuation
C13_Witness ==
  /\ EchoCalled
  /\ EchoText = <<"o", "k", ".">>
  /\ EchoRows = {UserText, DescriptionText}
  /\ normalize_strict(EchoText) = normalize_strict(UserText)
  /\ ~EchoResult

C14_OtherWording ==
  /\ EchoCalled
  /\ EchoRows = StoredTexts
  /\ EchoText = <<"1", "2", ".">>
  /\ ~EchoResult

\* no comment effect of a pass carries a blank text
NoBlankForwarded ==
  \A i \in 1..Len(effects) :
    effects[i].kind = "comment" => normalize_for_db(effects[i].text) # <<>>

\* C15: an empty or whitespace-only candidate is never classified as echo,
\* whatever the fingerprints, and no pass forwards such a comment
C15_AsStated ==
  /\ (EchoCalled /\ Strip(EchoText) = <<>>) => ~EchoResult
  /\ NoBlankForwarded

\* ------------------------------------------------------------------------
\* Candidate extractor on its own: calls of collect_comment_candidates
\* ------------------------------------------------------------------------
\* raw comment values: a reply, the same reply in other case, a short
\* reply, markup without text, blanks, a zero-width character
CandRaws ==
  {EngineerRaw, <<"d", "o", "n", "e", ".">>, ShortRaw, <<"<b>", "</b>">>,
   <<" ">>, <<"zwsp">>}

\* the comment entries of one container: none, one, or a non-comment entry
CandEntries ==
  {<<>>, <<Entry("status", ShortRaw)>>} \cup {<<Entry("comment", r)>> : r \in CandRaws}

\* the flat fields comment, message, engineer_text, text that are strings
CandFlats ==
  {<<>>, <<ShortRaw>>, <<<<"D", "o", "n", "e", ".">>, ShortRaw>>,
   <<<<" ">>, EngineerRaw>>}

collect_call(events, lifetime, flat) ==
  LET p == [ticket_id |-> "t1", events |-> events, lifetime |-> lifetime,
            flat |-> flat, status |-> StatusBlock(NULL)]
      cs == collect_comment_candidates(p)
  IN
  /\ effects' = [i \in 1..Len(cs) |-> Effect("candidate", cs[i], TRUE)]
  /\ last' = Op("collect_comment_candidates", "t1", p, "ok", ZeroRow, {}, FALSE)
  /\ UNCHANGED <<tickets, user_comments, seen_ids, submitted, age, concvars>>

NextCand ==
  \E events \in CandEntries, lifetime \in CandEntries, flat \in CandFlats :
    collect_call(events, lifetime, flat)

SpecCand == Init /\ [][NextCand]_vars

CandCalled == last.op = "collect_comment_candidates"

\* the candidates the call returned
Returned == [i \in 1..Len(effects) |-> effects[i].text]

\* every comment text of the payload, cleaned, in the order of discovery:
\* Fields.Events, then the lifetime, then the flat fields
Discovered ==
  LET flat == SelectSeq(last.payload.flat, LAMBDA t : Strip(t) # <<>>)
  IN CommentTexts(last.payload.events) \o CommentTexts(last.payload.lifetime)
       \o [i \in 1..Len(flat) |-> clean_intradesk_html(flat[i])]

\* the place of the first discovered text with the key of text c
FirstSeen(c) ==
  CHOOSE n \in 1..Len(Discovered) :
    /\ normalize_for_db(Discovered[n]) = normalize_for_db(c)
    /\ \A m \in 1..(n - 1) : normalize_for_db(Discovered[m]) # normalize_for_db(c)

\* C25: collect_comment_candidates returns no two candidates with the same
\* soft-normalized text and none whose normalized text is empty; every
\* discovered key is returned, with its first-seen text, in the order of
\* discovery
C25_FirstSeenInOrder ==
  CandCalled =>
     /\ \A i, j \in 1..Len(Returned) :
          i # j => normalize_for_db(Returned[i]) # normalize_for_db(Returned[j])
     /\ \A i \in 1..Len(Returned) : normalize_for_db(Returned[i]) # <<>>
     /\ {normalize_for_db(Returned[i]) : i \in 1..Len(Returned)}
          = {normalize_for_db(Discovered[n]) : n \in 1..Len(Discovered)} \ {<<>>}
     /\ \A i \in 1..Len(Returned) : Returned[i] = Discovered[FirstSeen(Returned[i])]
     /\ \A i, j \in 1..Len(Returned) :
          i < j => FirstSeen(Returned[i]) < FirstSeen(Returned[j])

\* a short reply and a reply are discovered, and then both again in the
\* flat fields, the reply in another spelling: the first two are returned
C25_Witness ==
  /\ CandCalled
  /\ Len(Discovered) = 4
  /\ normalize_for_db(Discovered[2]) = normalize_for_db(Discovered[3])
  /\ Discovered[2] # Discovered[3]
  /\ normalize_for_db(Discovered[4]) = normalize_for_db(Discovered[1])
  /\ Returned = <<Discovered[1], Discovered[2]>>
====
